---- MODULE Spec2Model ----
(***************************************************************************)
(* Multi-tenant notes SaaS: the authentication / authorization /           *)
(* tenant-isolation core.  The store (users, tenants, notes), the token    *)
(* service, the login state machine with its lockout counters, the         *)
(* request resolver (authenticate) and the notes controller with its       *)
(* quota gate are modelled from the backend sources.                       *)
(*                                                                         *)
(* The repository carries two backend variants of the auth code: the       *)
(* store-only one (build = "db") and the mock-aware one (build = "mock"),  *)
(* which first consults a hard-coded table of four mock users.             *)
(***************************************************************************)
EXTENDS Integers, FiniteSets, Sequences, TLC

VARIABLES
  build,    \* which backend variant is deployed: "db" or "mock"
  now,      \* Date.now(), in hours
  users,    \* User collection:   id -> document
  tenants,  \* Tenant collection: id -> document
  notes,    \* Note collection:   id -> document
  tokens,   \* tokens issued so far (signed values held by clients)
  reqs,     \* in-flight note requests (concurrent handlers)
  resp,     \* the response of the last completed request
  hist      \* history kept for stating the properties (not program state)

vars ==
  <<build, now, users, tenants, notes, tokens, reqs, resp, hist>>

-----------------------------------------------------------------------------
(* Bounds of the model *)

MaxNotes ==
  4

MaxClock ==
  3

MaxTokens ==
  2

MaxReqs ==
  4

\* update requests handled in one run
MaxUpdates ==
  1

\* notes created in one run of the isolation specification
MaxIsoNotes ==
  2

\* largest value of a usage counter in the usage specification
MaxCounter ==
  3

\* largest amount of one usage update
MaxAmount ==
  2

\* signed tokens one run of the token specification keeps
MaxSigned ==
  2

\* tenants (and users) one run of the registration specification can create
\* login requests in flight for one user
MaxLogins ==
  2

MaxRegistrations ==
  2

-----------------------------------------------------------------------------
(* Program constants *)

\* null for a Date field (security.lockUntil, security.lastLogin)
NoTime ==
  -1

\* noteLimit value meaning "unlimited" (pro plan)
Unlimited ==
  -1

\* noteLimit of a free tenant
FreeNoteLimit ==
  3

\* upper end of the valid free-plan noteLimit range
FreeNoteLimitMax ==
  10

\* failed attempts after which the account is locked
MaxLoginAttempts ==
  5

\* lock duration, in hours (2 * 60 * 60 * 1000 ms)
LockHours ==
  2

\* access token lifetime in hours ('7d'), refresh token lifetime ('30d')
AccessTtl ==
  168

RefreshTtl ==
  720

\* validateRegister: length of tenantName
TenantNameMin ==
  2

TenantNameMax ==
  100

\* tenantSchema: length of slug
SlugMin ==
  2

SlugMax ==
  50

\* longest top-level domain the user schema's e-mail pattern accepts
TldMax ==
  3

-----------------------------------------------------------------------------
(* Identifiers *)

TenantIds ==
  {"acme", "globex"}

\* store users: the seeded ones and one user registered later
UserIds ==
  {"adminAcme", "userAcme", "adminGlobex", "ann"}

NoteIds ==
  1..MaxNotes

None ==
  "none"

Min(a, b) ==
  IF a < b THEN a ELSE b

Max(a, b) ==
  IF a > b THEN a ELSE b

-----------------------------------------------------------------------------
(* Documents *)

NoTenant ==
  [exists |-> FALSE, slug |-> None, plan |-> "free", noteLimit |-> FreeNoteLimit,
   status |-> "active", isActive |-> FALSE,
   currentNoteCount |-> 0, currentUserCount |-> 0, storageUsed |-> 0]

\* seed: Acme is a free tenant with limit 3, Globex a pro tenant
SeedTenant(slug, plan, limit, nusers) ==
  [exists |-> TRUE, slug |-> slug, plan |-> plan, noteLimit |-> limit,
   status |-> "active", isActive |-> TRUE,
   currentNoteCount |-> 0, currentUserCount |-> nusers, storageUsed |-> 0]

SeedTenants ==
  [t \in TenantIds |->
     IF t = "acme" THEN SeedTenant("acme", "free", FreeNoteLimit, 3)
     ELSE SeedTenant("globex", "pro", Unlimited, 1)]

PermissionNames ==
  {"canCreateNotes", "canEditNotes", "canDeleteNotes", "canShareNotes",
   "canManageUsers", "canManageTenant"}

MemberPermissions ==
  {"canCreateNotes", "canEditNotes", "canDeleteNotes", "canShareNotes"}

NoUser ==
  [exists |-> FALSE, email |-> None, password |-> None, tenantId |-> None,
   role |-> "member", permissions |-> {}, isActive |-> FALSE,
   loginAttempts |-> 0, lockUntil |-> NoTime, lastLogin |-> NoTime]

SeedUser(email, tenantId, role) ==
  [exists |-> TRUE, email |-> email, password |-> "password", tenantId |-> tenantId,
   role |-> role,
   permissions |-> IF role = "admin" THEN PermissionNames ELSE MemberPermissions,
   isActive |-> TRUE,
   loginAttempts |-> 0, lockUntil |-> NoTime, lastLogin |-> NoTime]

SeedUsers ==
  [u \in UserIds |->
     CASE u = "adminAcme"   -> SeedUser("admin@acme.test", "acme", "admin")
       [] u = "userAcme"    -> SeedUser("user@acme.test", "acme", "member")
       [] u = "adminGlobex" -> SeedUser("admin@globex.test", "globex", "admin")
       [] OTHER             -> SeedUser("ann@x.test", "acme", "member")]

NoNote ==
  [exists |-> FALSE, tenantId |-> None, userId |-> None, isDeleted |-> FALSE]

NoNotes ==
  [n \in NoteIds |-> NoNote]

\* a token as the token service signs it; sig is "ok" for a token signed with
\* JWT_SECRET and "bad" for any other string
NoToken ==
  [userId |-> None, tenantId |-> None, role |-> None, tokenType |-> None,
   exp |-> 0, sig |-> None]

\* req.auth when authenticate attached nothing
NoPrincipal ==
  [userId |-> None, tenantId |-> None, tenantSlug |-> None, role |-> None,
   permissions |-> {}, isAdmin |-> FALSE]

\* e-mail addresses login is called with: a seeded one (also in the mock
\* table), a registered one, and one no user has
LoginEmails ==
  {"admin@acme.test", "ann@x.test", "nobody@x.test"}

\* no response yet / the last step was not a request
NoResp ==
  [op |-> None, status |-> 0, code |-> None,
   userId |-> None, tenantId |-> None,
   returned |-> {}, modified |-> {},
   currentCount |-> 0, limit |-> 0, plan |-> None,
   email |-> None, password |-> None, lockUntil |-> NoTime,
   compared |-> FALSE, issued |-> {},
   token |-> NoToken, principal |-> NoPrincipal,
   before |-> NoUser, streak |-> 0,
   result |-> FALSE,
   type |-> None, amount |-> 0, counter |-> 0,
   tenantName |-> <<>>,
   ok |-> FALSE, decoded |-> <<>>,
   slug |-> None,
   arg |-> <<>>, argAfter |-> <<>>, out |-> <<>>,
   noteId |-> 0]

\* streak[e]: login calls for e with a wrong password since the last
\* successful login for e; fifthAt[e]: the time of the fifth of them;
\* follow: the e-mail address of the user a run of the login and resolver
\* specifications follows
NoHist ==
  [streak |-> [e \in LoginEmails |-> 0],
   fifthAt |-> [e \in LoginEmails |-> NoTime],
   updates |-> 0,
   follow |-> None,
   start |-> NoUser,
   loggedOut |-> {}]

-----------------------------------------------------------------------------
(* Tenant virtuals: the quota gate *)

hasUnlimitedNotes(t) ==
  t.noteLimit = Unlimited

remainingNotes(t) ==
  IF hasUnlimitedNotes(t) THEN -1
  ELSE Max(0, t.noteLimit - t.currentNoteCount)

\* a gate that still admits a note when the count has reached the limit
canCreateNotesInclusive(t) ==
  IF ~t.isActive \/ t.status # "active" THEN FALSE
  ELSE hasUnlimitedNotes(t) \/ t.currentNoteCount <= t.noteLimit

canCreateNotes(t) ==
  IF ~t.isActive \/ t.status # "active" THEN FALSE
  ELSE hasUnlimitedNotes(t) \/ t.currentNoteCount < t.noteLimit

\* a decrement that is not floor-clamped and counts twice
decrementUsageTwice(t, amount) ==
  [t EXCEPT !.currentNoteCount = Max(0, t.currentNoteCount - 2 * amount)]

\* tenant.incrementUsage('notes', amount) on a loaded document; save() writes
\* the modified path usage.currentNoteCount
incrementUsage(t, amount) ==
  [t EXCEPT !.currentNoteCount = t.currentNoteCount + amount]

decrementUsage(t, amount) ==
  [t EXCEPT !.currentNoteCount = Max(0, t.currentNoteCount - amount)]

-----------------------------------------------------------------------------
(* Notes controller, one request handled from start to end.  Every notes   *)
(* route runs authenticate and authorize(['admin','member']) first; p is   *)
(* the principal (req.auth) the resolver attached.                         *)

\* the store state in which authenticate attaches a principal for user u
\* presenting an access token issued for u's current tenant
Authenticated(u) ==
  /\ users[u].exists
  /\ users[u].isActive
  /\ users[u].tenantId \in TenantIds
  /\ tenants[users[u].tenantId].exists
  /\ tenants[users[u].tenantId].isActive

\* req.auth
Principal(u) ==
  [userId |-> u, tenantId |-> users[u].tenantId,
   role |-> users[u].role, isAdmin |-> users[u].role = "admin"]

\* the query without the userId condition
NoteQueryTenantOnly(p) ==
  {n \in NoteIds :
     /\ notes[n].exists
     /\ notes[n].tenantId = p.tenantId
     /\ ~notes[n].isDeleted}

\* { tenantId, isDeleted: { $ne: true } } plus userId for non-admins
NoteQuery(p) ==
  {n \in NoteIds :
     /\ notes[n].exists
     /\ notes[n].tenantId = p.tenantId
     /\ ~notes[n].isDeleted
     /\ (p.isAdmin \/ notes[n].userId = p.userId)}

FreeNoteIds ==
  {n \in NoteIds : ~notes[n].exists}

NewNoteId ==
  CHOOSE n \in FreeNoteIds : \A m \in FreeNoteIds : n <= m

NoteResp(op, p, status, code) ==
  [NoResp EXCEPT !.op = op, !.status = status, !.code = code,
                 !.userId = p.userId, !.tenantId = p.tenantId]

NoteUsers ==
  {"adminAcme", "userAcme", "adminGlobex"}

\* POST /api/notes
createNote(u) ==
  /\ Authenticated(u)
  /\ canCreateNotes(tenants[users[u].tenantId]) => FreeNoteIds # {}
  /\ LET p == Principal(u)
         tenant == tenants[p.tenantId]
     IN IF ~tenant.exists
        THEN /\ resp' = NoteResp("createNote", p, 404, "TENANT_NOT_FOUND")
             /\ UNCHANGED <<notes, tenants>>
        ELSE IF ~canCreateNotes(tenant)
        THEN /\ resp' = [NoteResp("createNote", p, 403, "NOTE_LIMIT_REACHED")
                            EXCEPT !.currentCount = tenant.currentNoteCount,
                                   !.limit = tenant.noteLimit,
                                   !.plan = tenant.plan]
             /\ UNCHANGED <<notes, tenants>>
        ELSE /\ notes' = [notes EXCEPT ![NewNoteId] =
                            [exists |-> TRUE, tenantId |-> p.tenantId,
                             userId |-> p.userId, isDeleted |-> FALSE]]
             /\ tenants' = [tenants EXCEPT ![p.tenantId] = incrementUsage(tenant, 1)]
             /\ resp' = [NoteResp("createNote", p, 201, "OK")
                            EXCEPT !.returned = {NewNoteId},
                                   !.modified = {NewNoteId},
                                   !.currentCount =
                                      incrementUsage(tenant, 1).currentNoteCount + 1]
  /\ UNCHANGED <<build, now, users, tokens, reqs, hist>>

\* GET /api/notes ; filterUserId is the optional userId query parameter
getNotes(u, filterUserId) ==
  /\ Authenticated(u)
  /\ LET p == Principal(u)
         found == {n \in NoteQuery(p) :
                    (p.isAdmin /\ filterUserId # None) => notes[n].userId = filterUserId}
     IN resp' = [NoteResp("getNotes", p, 200, "OK") EXCEPT !.returned = found]
  /\ UNCHANGED <<build, now, users, tenants, notes, tokens, reqs, hist>>

\* GET /api/notes/:id ; addView saves analytics fields only
getNoteById(u, id) ==
  /\ Authenticated(u)
  /\ LET p == Principal(u)
     IN IF id \notin NoteQuery(p)
        THEN resp' = [NoteResp("getNoteById", p, 404, "NOTE_NOT_FOUND")
                          EXCEPT !.noteId = id]
        ELSE resp' = [NoteResp("getNoteById", p, 200, "OK")
                        EXCEPT !.returned = {id}, !.modified = {id},
                               !.noteId = id]
  /\ UNCHANGED <<build, now, users, tenants, notes, tokens, reqs, hist>>

Absent ==
  "absent"

\* request bodies of PUT /api/notes/:id : validateUpdateNote checks title,
\* content, category, tags, status and visibility when present and lets
\* every other field through
UpdateBodies ==
  [tenantId : TenantIds \cup {Absent},
   userId : NoteUsers \cup {Absent},
   isDeleted : {"true", "false", Absent}]

\* Object.assign(note, updateData)
AssignBody(note, body) ==
  [note EXCEPT
     !.tenantId = IF body.tenantId = Absent THEN @ ELSE body.tenantId,
     !.userId = IF body.userId = Absent THEN @ ELSE body.userId,
     !.isDeleted = IF body.isDeleted = Absent THEN @ ELSE body.isDeleted = "true"]

\* PUT /api/notes/:id
updateNote(u, id, body) ==
  /\ Authenticated(u)
  /\ hist.updates < MaxUpdates
  /\ hist' = [hist EXCEPT !.updates = @ + 1]
  /\ LET p == Principal(u)
     IN IF id \notin NoteQuery(p)
        THEN /\ resp' = [NoteResp("updateNote", p, 404, "NOTE_NOT_FOUND")
                          EXCEPT !.noteId = id]
             /\ UNCHANGED notes
        ELSE /\ notes' = [notes EXCEPT ![id] = AssignBody(notes[id], body)]
             /\ resp' = [NoteResp("updateNote", p, 200, "OK")
                            EXCEPT !.returned = {id}, !.modified = {id},
                                   !.noteId = id]
  /\ UNCHANGED <<build, now, users, tenants, tokens, reqs>>

\* note.softDelete(userId)
softDelete(note) ==
  [note EXCEPT !.isDeleted = TRUE]

\* DELETE /api/notes/:id
deleteNote(u, id) ==
  /\ Authenticated(u)
  /\ LET p == Principal(u)
         tenant == tenants[p.tenantId]
     IN IF id \notin NoteQuery(p)
        THEN /\ resp' = [NoteResp("deleteNote", p, 404, "NOTE_NOT_FOUND")
                          EXCEPT !.noteId = id]
             /\ UNCHANGED <<notes, tenants>>
        ELSE /\ notes' = [notes EXCEPT ![id] = softDelete(notes[id])]
             /\ tenants' = IF tenant.exists
                           THEN [tenants EXCEPT ![p.tenantId] = decrementUsage(tenant, 1)]
                           ELSE tenants
             /\ resp' = [NoteResp("deleteNote", p, 200, "OK")
                            EXCEPT !.modified = {id}, !.noteId = id]
  /\ UNCHANGED <<build, now, users, tokens, reqs, hist>>

\* GET /api/notes/search ; matching is the set of notes the $text search
\* matches
searchNotes(u, matching) ==
  /\ Authenticated(u)
  /\ LET p == Principal(u)
     IN resp' = [NoteResp("searchNotes", p, 200, "OK")
                   EXCEPT !.returned = NoteQuery(p) \cap matching]
  /\ UNCHANGED <<build, now, users, tenants, notes, tokens, reqs, hist>>

\* GET /api/notes/stats ; the notes the $match stage selects, and their count
getNotesStats(u) ==
  /\ Authenticated(u)
  /\ LET p == Principal(u)
     IN resp' = [NoteResp("getNotesStats", p, 200, "OK")
                   EXCEPT !.returned = NoteQuery(p),
                          !.currentCount = Cardinality(NoteQuery(p))]
  /\ UNCHANGED <<build, now, users, tenants, notes, tokens, reqs, hist>>

InitStore ==
  /\ build = "db"
  /\ now = 0
  /\ users = SeedUsers
  /\ tenants = SeedTenants
  /\ notes = NoNotes
  /\ tokens = {}
  /\ reqs = <<>>
  /\ resp = NoResp
  /\ hist = NoHist

InitNotes ==
  InitStore

NextNotes ==
  \/ \E u \in NoteUsers :
       /\ Cardinality(NoteIds \ FreeNoteIds) < MaxIsoNotes
       /\ createNote(u)
  \/ \E u \in NoteUsers, f \in {None, "userAcme"} : getNotes(u, f)
  \/ \E u \in NoteUsers, id \in NoteIds : getNoteById(u, id)
  \/ \E u \in NoteUsers, id \in NoteIds, body \in UpdateBodies : updateNote(u, id, body)
  \/ \E u \in NoteUsers, id \in NoteIds : deleteNote(u, id)
  \/ \E u \in NoteUsers, m \in SUBSET NoteIds : searchNotes(u, m)
  \/ \E u \in NoteUsers : getNotesStats(u)

SpecNotes ==
  InitNotes /\ [][NextNotes]_vars

\* create and soft-delete requests only, one after another
NextCount ==
  \/ \E u \in NoteUsers : createNote(u)
  \/ \E u \in NoteUsers, id \in NoteIds : deleteNote(u, id)

SpecCount ==
  InitNotes /\ [][NextCount]_vars

-----------------------------------------------------------------------------
(* Notes controller under concurrency: each request is a handler whose     *)
(* awaited store reads and writes are separate steps; reqs[r] holds the    *)
(* handler's position and its local documents.                             *)

ReqIds ==
  1..MaxReqs

IdleReq ==
  [op |-> None, pc |-> "idle", userId |-> None, tenantId |-> None, isAdmin |-> FALSE,
   noteId |-> 0, tenant |-> NoTenant, status |-> 0, code |-> None]

ConcUsers ==
  {"adminAcme", "userAcme"}

\* a request passes authenticate and enters its handler
startRequest(r, u, op, id) ==
  /\ reqs[r].pc = "idle"
  /\ \A q \in ReqIds : q < r => reqs[q].pc # "idle"
  /\ Authenticated(u)
  /\ reqs' = [reqs EXCEPT ![r] =
               [IdleReq EXCEPT !.op = op,
                               !.pc = IF op = "createNote" THEN "findTenant" ELSE "findNote",
                               !.userId = u,
                               !.tenantId = Principal(u).tenantId,
                               !.isAdmin = Principal(u).isAdmin,
                               !.noteId = id]]
  /\ UNCHANGED <<build, now, users, tenants, notes, tokens, resp, hist>>

Done(req, status, code) ==
  [req EXCEPT !.pc = "done", !.status = status, !.code = code]

\* tenant.save() after incrementUsage / decrementUsage: only the modified
\* path usage.currentNoteCount is written
SaveUsage(stored, local) ==
  [stored EXCEPT !.currentNoteCount = local.currentNoteCount]

\* createNote: Tenant.findById and the quota gate on the loaded document
createFindTenant(r) ==
  /\ reqs[r].op = "createNote" /\ reqs[r].pc = "findTenant"
  /\ LET tenant == tenants[reqs[r].tenantId]
     IN reqs' = [reqs EXCEPT ![r] =
                  IF ~tenant.exists THEN Done(@, 404, "TENANT_NOT_FOUND")
                  ELSE IF ~canCreateNotes(tenant) THEN Done(@, 403, "NOTE_LIMIT_REACHED")
                  ELSE [@ EXCEPT !.pc = "saveNote", !.tenant = tenant]]
  /\ UNCHANGED <<build, now, users, tenants, notes, tokens, resp, hist>>

\* createNote: note.save()
createSaveNote(r) ==
  /\ reqs[r].op = "createNote" /\ reqs[r].pc = "saveNote"
  /\ FreeNoteIds # {}
  /\ notes' = [notes EXCEPT ![NewNoteId] =
                 [exists |-> TRUE, tenantId |-> reqs[r].tenantId,
                  userId |-> reqs[r].userId, isDeleted |-> FALSE]]
  /\ reqs' = [reqs EXCEPT ![r] = [@ EXCEPT !.pc = "incrementUsage", !.noteId = NewNoteId]]
  /\ UNCHANGED <<build, now, users, tenants, tokens, resp, hist>>

\* createNote: tenant.incrementUsage('notes', 1) on the document loaded earlier
createIncrementUsage(r) ==
  /\ reqs[r].op = "createNote" /\ reqs[r].pc = "incrementUsage"
  /\ tenants' = [tenants EXCEPT ![reqs[r].tenantId] =
                   SaveUsage(@, incrementUsage(reqs[r].tenant, 1))]
  /\ reqs' = [reqs EXCEPT ![r] = Done(@, 201, "OK")]
  /\ UNCHANGED <<build, now, users, notes, tokens, resp, hist>>

\* deleteNote: Note.findOne(query)
deleteFindNote(r) ==
  /\ reqs[r].op = "deleteNote" /\ reqs[r].pc = "findNote"
  /\ reqs' = [reqs EXCEPT ![r] =
               IF reqs[r].noteId \notin NoteQuery(reqs[r])
               THEN Done(@, 404, "NOTE_NOT_FOUND")
               ELSE [@ EXCEPT !.pc = "softDelete"]]
  /\ UNCHANGED <<build, now, users, tenants, notes, tokens, resp, hist>>

\* deleteNote: note.softDelete(userId)
deleteSoftDelete(r) ==
  /\ reqs[r].op = "deleteNote" /\ reqs[r].pc = "softDelete"
  /\ notes' = [notes EXCEPT ![reqs[r].noteId] = softDelete(@)]
  /\ reqs' = [reqs EXCEPT ![r] = [@ EXCEPT !.pc = "findTenant"]]
  /\ UNCHANGED <<build, now, users, tenants, tokens, resp, hist>>

\* deleteNote: Tenant.findById
deleteFindTenant(r) ==
  /\ reqs[r].op = "deleteNote" /\ reqs[r].pc = "findTenant"
  /\ LET tenant == tenants[reqs[r].tenantId]
     IN reqs' = [reqs EXCEPT ![r] =
                  IF ~tenant.exists THEN Done(@, 200, "OK")
                  ELSE [@ EXCEPT !.pc = "decrementUsage", !.tenant = tenant]]
  /\ UNCHANGED <<build, now, users, tenants, notes, tokens, resp, hist>>

\* deleteNote: tenant.decrementUsage('notes', 1)
deleteDecrementUsage(r) ==
  /\ reqs[r].op = "deleteNote" /\ reqs[r].pc = "decrementUsage"
  /\ tenants' = [tenants EXCEPT ![reqs[r].tenantId] =
                   SaveUsage(@, decrementUsage(reqs[r].tenant, 1))]
  /\ reqs' = [reqs EXCEPT ![r] = Done(@, 200, "OK")]
  /\ UNCHANGED <<build, now, users, notes, tokens, resp, hist>>

InitConc ==
  /\ build = "db"
  /\ now = 0
  /\ users = SeedUsers
  /\ tenants = SeedTenants
  /\ notes = NoNotes
  /\ tokens = {}
  /\ reqs = [r \in ReqIds |-> IdleReq]
  /\ resp = NoResp
  /\ hist = NoHist

NextConc ==
  \/ \E r \in ReqIds, u \in ConcUsers : startRequest(r, u, "createNote", 0)
  \/ \E r \in ReqIds, u \in ConcUsers, id \in NoteIds : startRequest(r, u, "deleteNote", id)
  \/ \E r \in ReqIds : createFindTenant(r)
  \/ \E r \in ReqIds : createSaveNote(r)
  \/ \E r \in ReqIds : createIncrementUsage(r)
  \/ \E r \in ReqIds : deleteFindNote(r)
  \/ \E r \in ReqIds : deleteSoftDelete(r)
  \/ \E r \in ReqIds : deleteFindTenant(r)
  \/ \E r \in ReqIds : deleteDecrementUsage(r)

SpecConc ==
  InitConc /\ [][NextConc]_vars

-----------------------------------------------------------------------------
(* Token service *)

generateToken(payload, t) ==
  [userId |-> payload.userId, tenantId |-> payload.tenantId, role |-> payload.role,
   tokenType |-> "access", exp |-> t + AccessTtl, sig |-> "ok"]

generateRefreshToken(payload, t) ==
  [userId |-> payload.userId, tenantId |-> payload.tenantId, role |-> None,
   tokenType |-> "refresh", exp |-> t + RefreshTtl, sig |-> "ok"]

\* jwt.verify: the signature is checked against JWT_SECRET and the token is
\* expired once the clock has reached exp
verifyToken(tok, t) ==
  tok.sig = "ok" /\ t < tok.exp

\* what a client can present: nothing, a token it was issued, or such a
\* token with a signature that does not verify
Presentable ==
  {NoToken} \cup tokens \cup {[tok EXCEPT !.sig = "bad"] : tok \in tokens}

-----------------------------------------------------------------------------
(* User methods and virtuals *)

\* a lock that counts one more hour before it takes effect
isLockedAfterGrace(user, t) ==
  user.lockUntil # NoTime /\ user.lockUntil > t + 1

isLocked(user, t) ==
  user.lockUntil # NoTime /\ user.lockUntil > t

comparePassword(user, candidatePassword) ==
  /\ candidatePassword # None
  /\ user.password # None
  /\ candidatePassword = user.password

\* a restart that forgets the failure being recorded
incLoginAttemptsRestartAtZero(user, t) ==
  IF user.lockUntil # NoTime /\ user.lockUntil < t
  THEN [user EXCEPT !.loginAttempts = 0, !.lockUntil = NoTime]
  ELSE [user EXCEPT
          !.loginAttempts = @ + 1,
          !.lockUntil = IF user.loginAttempts + 1 >= MaxLoginAttempts /\ ~isLocked(user, t)
                        THEN t + LockHours
                        ELSE @]

incLoginAttempts(user, t) ==
  IF user.lockUntil # NoTime /\ user.lockUntil < t
  THEN [user EXCEPT !.loginAttempts = 1, !.lockUntil = NoTime]
  ELSE [user EXCEPT
          !.loginAttempts = @ + 1,
          !.lockUntil = IF user.loginAttempts + 1 >= MaxLoginAttempts /\ ~isLocked(user, t)
                        THEN t + LockHours
                        ELSE @]

resetLoginAttempts(user, t) ==
  [user EXCEPT !.loginAttempts = 0, !.lockUntil = NoTime, !.lastLogin = t]

\* populate('tenantId', ...): the tenant the user's reference names, if stored
TenantOf(user) ==
  IF user.tenantId \in TenantIds /\ tenants[user.tenantId].exists
  THEN tenants[user.tenantId]
  ELSE NoTenant

-----------------------------------------------------------------------------
(* The mock tables of the mock-aware variant *)

MockEmails ==
  {"admin@acme.test", "user@acme.test", "admin@globex.test", "user@globex.test"}

MockUserIds ==
  {"mock-admin-acme", "mock-user-acme", "mock-admin-globex", "mock-user-globex"}

MockUser(id, email, tenantId, role) ==
  [id |-> id, email |-> email, password |-> "password", tenantId |-> tenantId,
   tenantSlug |-> IF tenantId = "mock-tenant-acme" THEN "acme" ELSE "globex",
   role |-> role,
   permissions |-> IF role = "admin" THEN PermissionNames ELSE MemberPermissions,
   isActive |-> TRUE, tenantIsActive |-> TRUE]

\* the table of the auth controller, keyed by e-mail
mockUsersByEmail ==
  [e \in MockEmails |->
     CASE e = "admin@acme.test"   -> MockUser("mock-admin-acme", e, "mock-tenant-acme", "admin")
       [] e = "user@acme.test"    -> MockUser("mock-user-acme", e, "mock-tenant-acme", "member")
       [] e = "admin@globex.test" -> MockUser("mock-admin-globex", e, "mock-tenant-globex", "admin")
       [] OTHER                   -> MockUser("mock-user-globex", e, "mock-tenant-globex", "member")]

\* the table of the auth middleware, keyed by user id
mockUsers ==
  [i \in MockUserIds |->
     CASE i = "mock-admin-acme"   -> MockUser(i, "admin@acme.test", "mock-tenant-acme", "admin")
       [] i = "mock-user-acme"    -> MockUser(i, "user@acme.test", "mock-tenant-acme", "member")
       [] i = "mock-admin-globex" -> MockUser(i, "admin@globex.test", "mock-tenant-globex", "admin")
       [] OTHER                   -> MockUser(i, "user@globex.test", "mock-tenant-globex", "member")]

-----------------------------------------------------------------------------
(* Login.  A login computes its response, the users collection it leaves   *)
(* behind and the tokens it issues.                                        *)

Passwords ==
  {"password", "guess"}

LoginResult(status, code, newUsers, issued, compared, lockUntil) ==
  [status |-> status, code |-> code, users |-> newUsers, issued |-> issued,
   compared |-> compared, lockUntil |-> lockUntil]

\* User.findOne({ email, isActive: true })
findActiveByEmailIn(store, email) ==
  {u \in UserIds : store[u].exists /\ store[u].email = email /\ store[u].isActive}

findActiveByEmail(email) ==
  findActiveByEmailIn(users, email)

IssuedTokens(userId, tenantId, role, t) ==
  {generateToken([userId |-> userId, tenantId |-> tenantId, role |-> role], t),
   generateRefreshToken([userId |-> userId, tenantId |-> tenantId, role |-> role], t)}

\* login of the store-only variant, run against the user collection store
loginDbIn(store, email, password) ==
  IF findActiveByEmailIn(store, email) = {}
  THEN LoginResult(401, "INVALID_CREDENTIALS", store, {}, FALSE, NoTime)
  ELSE LET u == CHOOSE x \in findActiveByEmailIn(store, email) : TRUE
           user == store[u]
           tenant == TenantOf(user)
       IN IF isLocked(user, now)
          THEN LoginResult(423, "ACCOUNT_LOCKED", store, {}, FALSE, user.lockUntil)
          ELSE IF ~comparePassword(user, password)
          THEN LoginResult(401, "INVALID_CREDENTIALS",
                           [store EXCEPT ![u] = incLoginAttempts(user, now)],
                           {}, TRUE, NoTime)
          ELSE IF ~tenant.exists \/ ~tenant.isActive
          THEN LoginResult(403, "TENANT_INACTIVE", store, {}, TRUE, NoTime)
          ELSE LoginResult(200, "OK",
                           [store EXCEPT ![u] = resetLoginAttempts(user, now)],
                           IssuedTokens(u, user.tenantId, user.role, now), TRUE, NoTime)

loginDb(email, password) ==
  loginDbIn(users, email, password)

\* login of the mock-aware variant: the mock table first, then the store.  In
\* this variant the user's tenant reference is looked up as the tenant's key;
\* when the tenant is found the user becomes a plain object (toObject with
\* virtuals), which has isLocked but no methods, so comparePassword throws
\* and the handler answers 500.
loginMockIn(store, email, password) ==
  IF email \in MockEmails
  THEN LET mock == mockUsersByEmail[email]
       IN IF password # mock.password
          THEN LoginResult(401, "INVALID_CREDENTIALS", store, {}, TRUE, NoTime)
          ELSE IF ~mock.tenantIsActive
          THEN LoginResult(403, "TENANT_INACTIVE", store, {}, TRUE, NoTime)
          ELSE LoginResult(200, "OK", store,
                           IssuedTokens(mock.id, mock.tenantId, mock.role, now), TRUE, NoTime)
  ELSE IF findActiveByEmailIn(store, email) = {}
  THEN LoginResult(401, "INVALID_CREDENTIALS", store, {}, FALSE, NoTime)
  ELSE LET u == CHOOSE x \in findActiveByEmailIn(store, email) : TRUE
           user == store[u]
           tenant == TenantOf(user)
       IN IF isLocked(user, now)
          THEN LoginResult(423, "ACCOUNT_LOCKED", store, {}, FALSE, user.lockUntil)
          ELSE IF tenant.exists
          THEN LoginResult(500, "LOGIN_SERVICE_ERROR", store, {}, FALSE, NoTime)
          ELSE IF ~comparePassword(user, password)
          THEN LoginResult(401, "INVALID_CREDENTIALS",
                           [store EXCEPT ![u] = incLoginAttempts(user, now)],
                           {}, TRUE, NoTime)
          ELSE LoginResult(403, "TENANT_INACTIVE",
                           [store EXCEPT ![u] = resetLoginAttempts(user, now)],
                           {}, TRUE, NoTime)

loginMock(email, password) ==
  loginMockIn(users, email, password)

\* the stored user with this e-mail, active or not
UserByEmail(email) ==
  IF \E u \in UserIds : users[u].exists /\ users[u].email = email
  THEN users[CHOOSE u \in UserIds : users[u].exists /\ users[u].email = email]
  ELSE NoUser

\* POST /api/auth/login
login(email, password) ==
  /\ LET r == IF build = "db" THEN loginDb(email, password) ELSE loginMock(email, password)
         before == UserByEmail(email)
         wrong == before.exists /\ password # before.password
         streak == hist.streak[email]
     IN /\ users' = r.users
        /\ resp' = [NoResp EXCEPT !.op = "login", !.status = r.status, !.code = r.code,
                                  !.email = email, !.password = password,
                                  !.lockUntil = r.lockUntil, !.compared = r.compared,
                                  !.issued = r.issued, !.before = before,
                                  !.streak = streak]
        /\ hist' = [hist EXCEPT
                      !.streak[email] = IF r.status = 200 THEN 0
                                        ELSE IF wrong THEN Min(streak + 1, MaxLoginAttempts + 1)
                                        ELSE streak,
                      !.fifthAt[email] = IF r.status # 200 /\ wrong /\ streak + 1 = MaxLoginAttempts
                                         THEN now
                                         ELSE @]
  /\ UNCHANGED <<build, now, tenants, notes, tokens, reqs>>

\* POST /api/auth/login when the updateOne that incLoginAttempts issues is
\* rejected by the store: the handler awaits it inside its one try block, so
\* the rejection reaches the catch clause.  Nothing is written.
loginUpdateFails(email, password) ==
  /\ LET r == IF build = "db" THEN loginDb(email, password) ELSE loginMock(email, password)
     IN /\ r.status = 401
        /\ r.compared
        /\ r.users # users
        /\ resp' = [NoResp EXCEPT !.op = "loginUpdateFails", !.status = 500,
                                  !.code = "LOGIN_SERVICE_ERROR",
                                  !.email = email, !.password = password,
                                  !.compared = TRUE, !.before = UserByEmail(email)]
  /\ UNCHANGED <<build, now, users, tenants, notes, tokens, reqs, hist>>

-----------------------------------------------------------------------------
(* The request resolver (authenticate) *)

AuthResult(code, principal) ==
  [code |-> code, principal |-> principal]

Denied(code) ==
  AuthResult(code, NoPrincipal)

\* the loaded user as the checks see it
NoUserView ==
  [found |-> FALSE, id |-> None, isActive |-> FALSE, hasTenant |-> FALSE,
   tenantIsActive |-> FALSE, tenantId |-> None, tenantSlug |-> None,
   role |-> None, permissions |-> {}]

\* req.auth
Granted(user) ==
  AuthResult("OK", [userId |-> user.id, tenantId |-> user.tenantId,
                    tenantSlug |-> user.tenantSlug,
                    role |-> user.role, permissions |-> user.permissions,
                    isAdmin |-> user.role = "admin"])

\* User.findById(decoded.userId).populate('tenantId', ...)
loadUserDb(userId) ==
  IF userId \in UserIds /\ users[userId].exists
  THEN [found |-> TRUE, id |-> userId, isActive |-> users[userId].isActive,
        hasTenant |-> TenantOf(users[userId]).exists,
        tenantIsActive |-> TenantOf(users[userId]).isActive,
        tenantId |-> users[userId].tenantId,
        tenantSlug |-> TenantOf(users[userId]).slug,
        role |-> users[userId].role, permissions |-> users[userId].permissions]
  ELSE NoUserView

\* the mock table first, then the store
loadUserMock(userId) ==
  IF userId \in MockUserIds
  THEN [found |-> TRUE, id |-> userId, isActive |-> mockUsers[userId].isActive,
        hasTenant |-> TRUE, tenantIsActive |-> mockUsers[userId].tenantIsActive,
        tenantId |-> mockUsers[userId].tenantId,
        tenantSlug |-> mockUsers[userId].tenantSlug,
        role |-> mockUsers[userId].role,
        permissions |-> mockUsers[userId].permissions]
  ELSE loadUserDb(userId)

\* the resolver with the tenant cross-check before the activity checks
authenticateDbMismatchFirst(tok) ==
  IF tok = NoToken THEN Denied("NO_TOKEN")
  ELSE IF ~verifyToken(tok, now) THEN Denied("INVALID_TOKEN")
  ELSE IF tok.tokenType # "access" THEN Denied("INVALID_TOKEN_TYPE")
  ELSE LET user == loadUserDb(tok.userId)
       IN IF ~user.found THEN Denied("USER_NOT_FOUND")
          ELSE IF user.tenantId # tok.tenantId THEN Denied("TENANT_MISMATCH")
          ELSE IF ~user.isActive THEN Denied("USER_INACTIVE")
          ELSE IF ~user.hasTenant \/ ~user.tenantIsActive THEN Denied("TENANT_INACTIVE")
          ELSE Granted(user)

\* the resolver without the tenant cross-check
authenticateDbNoCrossCheck(tok) ==
  IF tok = NoToken THEN Denied("NO_TOKEN")
  ELSE IF ~verifyToken(tok, now) THEN Denied("INVALID_TOKEN")
  ELSE IF tok.tokenType # "access" THEN Denied("INVALID_TOKEN_TYPE")
  ELSE LET user == loadUserDb(tok.userId)
       IN IF ~user.found THEN Denied("USER_NOT_FOUND")
          ELSE IF ~user.isActive THEN Denied("USER_INACTIVE")
          ELSE IF ~user.hasTenant \/ ~user.tenantIsActive THEN Denied("TENANT_INACTIVE")
          ELSE Granted(user)

\* authenticate of the store-only variant
authenticateDb(tok) ==
  IF tok = NoToken THEN Denied("NO_TOKEN")
  ELSE IF ~verifyToken(tok, now) THEN Denied("INVALID_TOKEN")
  ELSE IF tok.tokenType # "access" THEN Denied("INVALID_TOKEN_TYPE")
  ELSE LET user == loadUserDb(tok.userId)
       IN IF ~user.found THEN Denied("USER_NOT_FOUND")
          ELSE IF ~user.isActive THEN Denied("USER_INACTIVE")
          ELSE IF ~user.hasTenant \/ ~user.tenantIsActive THEN Denied("TENANT_INACTIVE")
          ELSE IF user.tenantId # tok.tenantId THEN Denied("TENANT_MISMATCH")
          ELSE Granted(user)

\* authenticate of the mock-aware variant
authenticateMock(tok) ==
  IF tok = NoToken THEN Denied("NO_TOKEN")
  ELSE IF ~verifyToken(tok, now) THEN Denied("INVALID_TOKEN")
  ELSE IF tok.tokenType # "access" THEN Denied("INVALID_TOKEN_TYPE")
  ELSE LET user == loadUserMock(tok.userId)
       IN IF ~user.found THEN Denied("USER_NOT_FOUND")
          ELSE IF ~user.isActive THEN Denied("USER_INACTIVE")
          ELSE IF ~user.hasTenant \/ ~user.tenantIsActive THEN Denied("TENANT_INACTIVE")
          ELSE IF user.tenantId # tok.tenantId THEN Denied("TENANT_MISMATCH")
          ELSE Granted(user)

\* a request passing through the authenticate middleware
authenticate(tok) ==
  /\ LET r == IF build = "db" THEN authenticateDb(tok) ELSE authenticateMock(tok)
     IN resp' = [NoResp EXCEPT !.op = "authenticate",
                               !.status = IF r.code = "OK" THEN 200 ELSE 401,
                               !.code = r.code, !.token = tok,
                               !.principal = r.principal]
  /\ UNCHANGED <<build, now, users, tenants, notes, tokens, reqs, hist>>

-----------------------------------------------------------------------------
(* Token refresh *)

\* the store-only auth controller imports generateToken and
\* generateRefreshToken only: verifyToken is an unbound name there
verifyTokenImported ==
  FALSE

\* the mock-aware auth controller does not import jsonwebtoken: jwt is an
\* unbound name there
jwtImported ==
  FALSE

RefreshResult(status, code, issued) ==
  [status |-> status, code |-> code, issued |-> issued]

\* refreshToken of the store-only variant
refreshTokenDb(tok) ==
  IF tok = NoToken THEN RefreshResult(401, "REFRESH_TOKEN_REQUIRED", {})
  ELSE IF ~verifyTokenImported \/ ~verifyToken(tok, now)
  THEN RefreshResult(401, "INVALID_REFRESH_TOKEN", {})
  ELSE IF tok.tokenType # "refresh" THEN RefreshResult(401, "INVALID_TOKEN_TYPE", {})
  ELSE LET user == loadUserDb(tok.userId)
       IN IF ~user.found \/ ~user.isActive \/ ~user.hasTenant \/ ~user.tenantIsActive
          THEN RefreshResult(401, "INVALID_USER_TENANT", {})
          ELSE RefreshResult(200, "OK",
                             {generateToken([userId |-> user.id, tenantId |-> user.tenantId,
                                            role |-> user.role], now)})

\* refreshToken of the mock-aware variant: every failure, the unbound jwt
\* included, ends in the catch block
refreshTokenMock(tok) ==
  IF tok = NoToken THEN RefreshResult(401, "REFRESH_TOKEN_REQUIRED", {})
  ELSE IF ~jwtImported \/ ~verifyToken(tok, now)
  THEN RefreshResult(401, "INVALID_REFRESH_TOKEN", {})
  ELSE LET user == loadUserDb(tok.userId)
       IN IF ~user.found \/ ~user.isActive
          THEN RefreshResult(401, "INVALID_REFRESH_TOKEN", {})
          ELSE IF ~user.hasTenant
          THEN RefreshResult(401, "INVALID_REFRESH_TOKEN", {})
          ELSE RefreshResult(200, "OK",
                             {generateToken([userId |-> user.id, tenantId |-> user.tenantId,
                                            role |-> user.role], now)})

\* POST /api/auth/refresh
refreshToken(tok) ==
  /\ LET r == IF build = "db" THEN refreshTokenDb(tok) ELSE refreshTokenMock(tok)
     IN resp' = [NoResp EXCEPT !.op = "refreshToken", !.status = r.status,
                               !.code = r.code, !.token = tok, !.issued = r.issued]
  /\ UNCHANGED <<build, now, users, tenants, notes, tokens, reqs, hist>>

-----------------------------------------------------------------------------
(* The environment: time passes and the store is changed from outside      *)
(* (administration, seeding)                                               *)

\* clock steps: an hour, or the lifetime of an access token
ClockSteps ==
  {1, AccessTtl}

Tick(d) ==
  /\ IF d = 1 THEN now < MaxClock \/ (AccessTtl <= now /\ now < AccessTtl + MaxClock)
     ELSE now + d <= AccessTtl + MaxClock
  /\ now' = now + d
  /\ resp' = NoResp
  /\ UNCHANGED <<build, users, tenants, notes, tokens, reqs, hist>>

\* the client keeps the tokens of the response it just received, while it
\* has room for them
KeepTokens ==
  /\ resp.issued # {}
  /\ Cardinality(tokens \cup resp.issued) <= MaxTokens
  /\ tokens' = tokens \cup resp.issued
  /\ resp' = NoResp
  /\ UNCHANGED <<build, now, users, tenants, notes, reqs, hist>>

DeactivateUser(u) ==
  /\ users[u].exists /\ users[u].isActive
  /\ users' = [users EXCEPT ![u].isActive = FALSE]
  /\ resp' = NoResp
  /\ UNCHANGED <<build, now, tenants, notes, tokens, reqs, hist>>

RemoveUser(u) ==
  /\ users[u].exists
  /\ users' = [users EXCEPT ![u] = NoUser]
  /\ resp' = NoResp
  /\ UNCHANGED <<build, now, tenants, notes, tokens, reqs, hist>>

ReassignUser(u, t) ==
  /\ users[u].exists /\ users[u].tenantId # t
  /\ users' = [users EXCEPT ![u].tenantId = t]
  /\ resp' = NoResp
  /\ UNCHANGED <<build, now, tenants, notes, tokens, reqs, hist>>

DeactivateTenant(t) ==
  /\ tenants[t].exists /\ tenants[t].isActive
  /\ tenants' = [tenants EXCEPT ![t].isActive = FALSE]
  /\ resp' = NoResp
  /\ UNCHANGED <<build, now, users, notes, tokens, reqs, hist>>

RemoveTenant(t) ==
  /\ tenants[t].exists
  /\ tenants' = [tenants EXCEPT ![t] = NoTenant]
  /\ resp' = NoResp
  /\ UNCHANGED <<build, now, users, notes, tokens, reqs, hist>>

-----------------------------------------------------------------------------
(* Specifications of login and of the resolver *)

\* a run follows a seeded user (who is also in the mock tables) or a
\* registered one
FollowedEmails ==
  {"admin@acme.test", "ann@x.test"}

InitAuthStore ==
  /\ build \in {"db", "mock"}
  /\ now = 0
  /\ users = SeedUsers
  /\ tenants = SeedTenants
  /\ notes = NoNotes
  /\ tokens = {}
  /\ reqs = <<>>
  /\ resp = NoResp
  /\ hist \in {[NoHist EXCEPT !.follow = e] : e \in FollowedEmails}

\* the stored user a run follows
Followed ==
  CHOOSE u \in UserIds : SeedUsers[u].email = hist.follow

NextLogin ==
  \/ \E e \in {hist.follow, "nobody@x.test"}, p \in Passwords : login(e, p)
  \/ Tick(1)
  \/ DeactivateUser(Followed)
  \/ DeactivateTenant("acme")
  \/ RemoveTenant("acme")

SpecLogin ==
  InitAuthStore /\ [][NextLogin]_vars

\* login with a store whose counter update may fail
NextLoginFail ==
  \/ NextLogin
  \/ \E e \in {hist.follow}, p \in Passwords : loginUpdateFails(e, p)

SpecLoginFail ==
  InitAuthStore /\ [][NextLoginFail]_vars

-----------------------------------------------------------------------------
(* Login under concurrency: the handler's findOne and its updateOne are     *)
(* separate steps.  reqs[r].user is the document the handler loaded; the    *)
(* update is built from that document and applied to the stored one.        *)

LoginReqIds ==
  1..MaxLogins

\* the user the concurrent requests log in as
LoginUser ==
  "ann"

\* this.updateOne(...) of incLoginAttempts: the conditions read the loaded
\* document, $inc, $set and $unset act on the stored one
incLoginAttemptsOn(stored, user, t) ==
  IF user.lockUntil # NoTime /\ user.lockUntil < t
  THEN [stored EXCEPT !.loginAttempts = 1, !.lockUntil = NoTime]
  ELSE [stored EXCEPT
          !.loginAttempts = @ + 1,
          !.lockUntil = IF user.loginAttempts + 1 >= MaxLoginAttempts /\ ~isLocked(user, t)
                        THEN t + LockHours
                        ELSE @]

\* User.findOne(...) and the checks up to the password comparison
loginFindUser(r) ==
  /\ reqs[r].pc = "idle"
  /\ LET user == users[LoginUser]
     IN IF ~(user.exists /\ user.isActive)
        THEN reqs' = [reqs EXCEPT ![r].pc = "done", ![r].status = 401]
        ELSE IF isLocked(user, now)
        THEN reqs' = [reqs EXCEPT ![r].pc = "done", ![r].status = 423, ![r].user = user]
        ELSE reqs' = [reqs EXCEPT ![r].pc = "update", ![r].user = user]
  /\ resp' = NoResp
  /\ UNCHANGED <<build, now, users, tenants, notes, tokens, hist>>

\* await user.incLoginAttempts() or await user.resetLoginAttempts(), and
\* the response
loginUpdate(r) ==
  /\ reqs[r].pc = "update"
  /\ LET user == reqs[r].user
         wrong == ~comparePassword(user, reqs[r].password)
         status == IF wrong THEN 401 ELSE 200
     IN /\ users' = [users EXCEPT ![LoginUser] =
                       IF wrong THEN incLoginAttemptsOn(@, user, now)
                       ELSE resetLoginAttempts(@, now)]
        /\ reqs' = [reqs EXCEPT ![r].pc = "done", ![r].status = status]
        /\ resp' = [NoResp EXCEPT !.op = "login", !.status = status,
                                  !.code = IF wrong THEN "INVALID_CREDENTIALS" ELSE "OK",
                                  !.email = user.email, !.password = reqs[r].password,
                                  !.compared = TRUE, !.before = user]
  /\ UNCHANGED <<build, now, tenants, notes, tokens, hist>>

\* the stored user before the requests, as sequential logins leave it: fewer
\* than five attempts and no lock, or five attempts and a lock set at some
\* hour up to now, running or run out
InitLoginConc ==
  /\ build = "db"
  /\ now \in 1..MaxClock
  /\ \E attempts \in 0..MaxLoginAttempts,
        lockUntil \in {NoTime} \cup (LockHours..(now + LockHours)) :
       /\ lockUntil # NoTime <=> attempts = MaxLoginAttempts
       /\ users = [SeedUsers EXCEPT ![LoginUser].loginAttempts = attempts,
                                    ![LoginUser].lockUntil = lockUntil]
  /\ tenants = SeedTenants
  /\ notes = NoNotes
  /\ tokens = {}
  /\ reqs \in [LoginReqIds -> {[pc |-> "idle", password |-> p, status |-> 0, user |-> NoUser] :
                                  p \in Passwords}]
  /\ resp = NoResp
  /\ hist = [NoHist EXCEPT !.start = users[LoginUser]]

NextLoginConc ==
  \/ \E r \in LoginReqIds : loginFindUser(r)
  \/ \E r \in LoginReqIds : loginUpdate(r)

SpecLoginConc ==
  InitLoginConc /\ [][NextLoginConc]_vars

NextAuth ==
  \/ login(hist.follow, "password")
  \/ \E tok \in Presentable : authenticate(tok)
  \/ \E tok \in Presentable : refreshToken(tok)
  \/ KeepTokens
  \/ \E d \in ClockSteps : Tick(d)
  \/ DeactivateUser(Followed)
  \/ RemoveUser(Followed)
  \/ \E t \in TenantIds : ReassignUser(Followed, t)
  \/ \E t \in TenantIds : DeactivateTenant(t)
  \/ \E t \in TenantIds : RemoveTenant(t)

SpecAuth ==
  InitAuthStore /\ [][NextAuth]_vars

-----------------------------------------------------------------------------
(* The principal after the user's role or permissions were changed *)

\* an administrator changes the stored role of user u and saves the user;
\* the pre-save hook gives a new admin the two management flags
ChangeRole(u, role) ==
  /\ users[u].exists /\ users[u].role # role
  /\ users' = [users EXCEPT
                 ![u].role = role,
                 ![u].permissions = IF role = "admin"
                                    THEN @ \cup {"canManageUsers", "canManageTenant"}
                                    ELSE @]
  /\ resp' = NoResp
  /\ UNCHANGED <<build, now, tenants, notes, tokens, reqs, hist>>

\* an administrator changes the stored permission flags of user u
ChangePermissions(u, flags) ==
  /\ users[u].exists /\ users[u].permissions # flags
  /\ users' = [users EXCEPT ![u].permissions = flags]
  /\ resp' = NoResp
  /\ UNCHANGED <<build, now, tenants, notes, tokens, reqs, hist>>

NextPrincipal ==
  \/ login(hist.follow, "password")
  \/ \E tok \in Presentable : authenticate(tok)
  \/ KeepTokens
  \/ Tick(1)
  \/ \E role \in {"admin", "member"} : ChangeRole(Followed, role)
  \/ \E flags \in {{}, MemberPermissions, PermissionNames} :
       ChangePermissions(Followed, flags)

SpecPrincipal ==
  InitAuthStore /\ [][NextPrincipal]_vars

-----------------------------------------------------------------------------
(* Optional authentication *)

\* optionalAuth: without a token it calls next(); with one it awaits
\* authenticate(req, res, callback), and authenticate either sends its 401
\* response and returns without calling the callback, or attaches the
\* principal and calls the callback with no argument.  resp.counter is the
\* number of calls of next, resp.status the status of the response the
\* middleware sent (0 when it sent none).
optionalAuth(tok) ==
  /\ LET r == IF build = "db" THEN authenticateDb(tok) ELSE authenticateMock(tok)
     IN resp' = IF tok = NoToken
                THEN [NoResp EXCEPT !.op = "optionalAuth", !.token = tok,
                                    !.counter = 1]
                ELSE IF r.code = "OK"
                THEN [NoResp EXCEPT !.op = "optionalAuth", !.token = tok,
                                    !.code = "OK", !.principal = r.principal,
                                    !.counter = 1]
                ELSE [NoResp EXCEPT !.op = "optionalAuth", !.token = tok,
                                    !.status = 401, !.code = r.code,
                                    !.counter = 0]
  /\ UNCHANGED <<build, now, users, tenants, notes, tokens, reqs, hist>>

NextOptional ==
  \/ login(hist.follow, "password")
  \/ \E tok \in Presentable : optionalAuth(tok)
  \/ KeepTokens
  \/ \E d \in ClockSteps : Tick(d)
  \/ DeactivateUser(Followed)
  \/ RemoveUser(Followed)
  \/ \E t \in TenantIds : ReassignUser(Followed, t)
  \/ \E t \in TenantIds : DeactivateTenant(t)

SpecOptional ==
  InitAuthStore /\ [][NextOptional]_vars

-----------------------------------------------------------------------------
(* Logout *)

\* a logout that also closes the user's account
logoutClosingAccount(tok) ==
  /\ LET r == IF build = "db" THEN authenticateDb(tok) ELSE authenticateMock(tok)
     IN /\ resp' = [NoResp EXCEPT !.op = "logout",
                                  !.status = IF r.code = "OK" THEN 200 ELSE 401,
                                  !.code = r.code, !.token = tok,
                                  !.principal = r.principal]
        /\ hist' = IF r.code = "OK" THEN [hist EXCEPT !.loggedOut = @ \cup {tok}] ELSE hist
        /\ users' = IF r.code = "OK" /\ tok.userId \in UserIds
                    THEN [users EXCEPT ![tok.userId].isActive = FALSE]
                    ELSE users
  /\ UNCHANGED <<build, now, tenants, notes, tokens, reqs>>

\* POST /api/auth/logout behind authenticate: the handler answers 'Logout
\* successful' and writes nothing (the second definition also clears the
\* cookies of the response).  hist.loggedOut collects the tokens that were
\* logged out.
logout(tok) ==
  /\ LET r == IF build = "db" THEN authenticateDb(tok) ELSE authenticateMock(tok)
     IN /\ resp' = [NoResp EXCEPT !.op = "logout",
                                  !.status = IF r.code = "OK" THEN 200 ELSE 401,
                                  !.code = r.code, !.token = tok,
                                  !.principal = r.principal]
        /\ hist' = IF r.code = "OK" THEN [hist EXCEPT !.loggedOut = @ \cup {tok}] ELSE hist
        /\ users' = users
  /\ UNCHANGED <<build, now, tenants, notes, tokens, reqs>>

NextLogout ==
  \/ login(hist.follow, "password")
  \/ \E tok \in Presentable : authenticate(tok)
  \/ \E tok \in Presentable : logout(tok)
  \/ KeepTokens
  \/ \E d \in ClockSteps : Tick(d)
  \/ DeactivateUser(Followed)
  \/ \E t \in TenantIds : DeactivateTenant(t)

SpecLogout ==
  InitAuthStore /\ [][NextLogout]_vars

-----------------------------------------------------------------------------
(* Tenant controller: upgrade *)

\* tenantSchema.pre('save'): when the plan was changed the note limit is
\* brought in line with it
tenantPreSave(stored, t) ==
  IF t.plan = stored.plan THEN t
  ELSE IF t.plan = "free" /\ (t.noteLimit = Unlimited \/ t.noteLimit > FreeNoteLimitMax)
  THEN [t EXCEPT !.noteLimit = FreeNoteLimit]
  ELSE IF t.plan = "pro" /\ t.noteLimit < FreeNoteLimitMax
  THEN [t EXCEPT !.noteLimit = Unlimited]
  ELSE t

\* an upgrade that changes the plan name and leaves the limit as it was
upgradedKeepingLimit(t) ==
  [t EXCEPT !.plan = "pro", !.status = "active"]

\* an upgrade that also starts the note count afresh
upgradedResettingUsage(t) ==
  [t EXCEPT !.plan = "pro", !.noteLimit = Unlimited, !.status = "active",
            !.currentNoteCount = 0]

\* the document upgradeTenant saves
upgraded(t) ==
  tenantPreSave(t, [t EXCEPT !.plan = "pro", !.noteLimit = Unlimited, !.status = "active"])

\* POST /api/tenants/:slug/upgrade behind adminOnly
upgradeTenant(u, slug) ==
  /\ Authenticated(u)
  /\ LET p == Principal(u)
         tenant == tenants[p.tenantId]
         UpgradeResp(status, code) ==
           [NoteResp("upgradeTenant", p, status, code) EXCEPT !.slug = slug]
     IN IF ~p.isAdmin
        THEN /\ resp' = UpgradeResp(403, "INSUFFICIENT_PERMISSIONS")
             /\ UNCHANGED tenants
        ELSE IF ~(tenant.exists /\ tenant.slug = slug)
        THEN /\ resp' = UpgradeResp(404, "TENANT_NOT_FOUND")
             /\ UNCHANGED tenants
        ELSE IF tenant.plan = "pro"
        THEN /\ resp' = UpgradeResp(400, "ALREADY_PRO")
             /\ UNCHANGED tenants
        ELSE /\ tenants' = [tenants EXCEPT ![p.tenantId] = upgraded(tenant)]
             /\ resp' = [UpgradeResp(200, "OK")
                            EXCEPT !.plan = upgraded(tenant).plan,
                                   !.limit = upgraded(tenant).noteLimit,
                                   !.currentCount = tenant.currentNoteCount,
                                   !.result = canCreateNotes(upgraded(tenant))]
  /\ UNCHANGED <<build, now, users, notes, tokens, reqs, hist>>

Slugs ==
  {"acme", "globex"}

\* notes are created and deleted and tenants are upgraded, one request
\* after another
NextUpgrade ==
  \/ \E u \in NoteUsers : createNote(u)
  \/ \E u \in NoteUsers, id \in NoteIds : deleteNote(u, id)
  \/ \E u \in NoteUsers, slug \in Slugs : upgradeTenant(u, slug)

SpecUpgrade ==
  InitNotes /\ [][NextUpgrade]_vars

-----------------------------------------------------------------------------
(* Notes controller when the tenant usage write fails: tenant.save() rejects, *)
(* the handler's catch block answers 500                                     *)

\* POST /api/notes ; note.save() succeeded, incrementUsage rejected
createNoteUsageFails(u) ==
  /\ Authenticated(u)
  /\ tenants[users[u].tenantId].exists
  /\ canCreateNotes(tenants[users[u].tenantId])
  /\ FreeNoteIds # {}
  /\ LET p == Principal(u)
     IN /\ notes' = [notes EXCEPT ![NewNoteId] =
                       [exists |-> TRUE, tenantId |-> p.tenantId,
                        userId |-> p.userId, isDeleted |-> FALSE]]
        /\ resp' = [NoteResp("createNote", p, 500, "NOTE_CREATE_SERVICE_ERROR")
                       EXCEPT !.modified = {NewNoteId}]
  /\ UNCHANGED <<build, now, users, tenants, tokens, reqs, hist>>

\* DELETE /api/notes/:id ; softDelete succeeded, decrementUsage rejected
deleteNoteUsageFails(u, id) ==
  /\ Authenticated(u)
  /\ id \in NoteQuery(Principal(u))
  /\ tenants[users[u].tenantId].exists
  /\ LET p == Principal(u)
     IN /\ notes' = [notes EXCEPT ![id] = softDelete(notes[id])]
        /\ resp' = [NoteResp("deleteNote", p, 500, "NOTE_DELETE_SERVICE_ERROR")
                       EXCEPT !.modified = {id}]
  /\ UNCHANGED <<build, now, users, tenants, tokens, reqs, hist>>

NextFail ==
  \/ \E u \in NoteUsers : createNote(u)
  \/ \E u \in NoteUsers, id \in NoteIds : deleteNote(u, id)
  \/ \E u \in NoteUsers : createNoteUsageFails(u)
  \/ \E u \in NoteUsers, id \in NoteIds : deleteNoteUsageFails(u, id)

SpecFail ==
  InitNotes /\ [][NextFail]_vars

-----------------------------------------------------------------------------
(* Tenant usage counters: the three counters of the usage sub-document and *)
(* the two methods that write them                                         *)

UsageTypes ==
  {"notes", "users", "storage"}

\* amounts a caller can pass; a negative one included
UsageAmounts ==
  (0 - 1) .. MaxAmount

CounterOf(t, type) ==
  CASE type = "notes" -> t.currentNoteCount
    [] type = "users" -> t.currentUserCount
    [] type = "storage" -> t.storageUsed

WithCounter(t, type, v) ==
  CASE type = "notes" -> [t EXCEPT !.currentNoteCount = v]
    [] type = "users" -> [t EXCEPT !.currentUserCount = v]
    [] type = "storage" -> [t EXCEPT !.storageUsed = v]

\* decrementUsage without the clamp at zero
decrementUsageOfUnclamped(t, type, amount) ==
  WithCounter(t, type, CounterOf(t, type) - amount)

incrementUsageOf(t, type, amount) ==
  WithCounter(t, type, CounterOf(t, type) + amount)

decrementUsageOf(t, type, amount) ==
  WithCounter(t, type, Max(0, CounterOf(t, type) - amount))

\* the schema's min: 0 on each counter, run by save()
usageValid(t) ==
  \A type \in UsageTypes : CounterOf(t, type) >= 0

\* this.save(): a document failing validation is rejected, the store keeps
\* the old one
saveUsage(stored, t) ==
  IF usageValid(t) THEN t ELSE stored

UsageResp(op, k, type, amount) ==
  [NoResp EXCEPT !.op = op, !.tenantId = k, !.type = type,
                 !.amount = amount,
                 !.counter = CounterOf(tenants[k], type)]

callIncrementUsage(k, type, amount) ==
  /\ tenants[k].exists
  /\ CounterOf(tenants[k], type) + amount <= MaxCounter
  /\ tenants' = [tenants EXCEPT ![k] =
                   saveUsage(@, incrementUsageOf(@, type, amount))]
  /\ resp' = UsageResp("incrementUsage", k, type, amount)
  /\ UNCHANGED <<build, now, users, notes, tokens, reqs, hist>>

callDecrementUsage(k, type, amount) ==
  /\ tenants[k].exists
  /\ CounterOf(tenants[k], type) - amount <= MaxCounter
  /\ tenants' = [tenants EXCEPT ![k] =
                   saveUsage(@, decrementUsageOf(@, type, amount))]
  /\ resp' = UsageResp("decrementUsage", k, type, amount)
  /\ UNCHANGED <<build, now, users, notes, tokens, reqs, hist>>

\* tenant acme with every combination of counter values the schema admits
UsageTenants ==
  {[SeedTenants["acme"] EXCEPT !.currentNoteCount = n,
                              !.currentUserCount = u,
                              !.storageUsed = b] :
     n \in 0 .. MaxCounter, u \in 0 .. MaxCounter, b \in 0 .. MaxCounter}

InitUsage ==
  /\ build = "db"
  /\ now = 0
  /\ users = SeedUsers
  /\ tenants \in {[SeedTenants EXCEPT !["acme"] = t] : t \in UsageTenants}
  /\ notes = NoNotes
  /\ tokens = {}
  /\ reqs = <<>>
  /\ resp = NoResp
  /\ hist = NoHist

NextUsage ==
  \/ \E type \in UsageTypes, amount \in UsageAmounts :
        callIncrementUsage("acme", type, amount)
  \/ \E type \in UsageTypes, amount \in UsageAmounts :
        callDecrementUsage("acme", type, amount)

SpecUsage ==
  InitUsage /\ [][NextUsage]_vars

-----------------------------------------------------------------------------
(* Registration.  Texts (e-mail address, tenant name, slug) are sequences of *)
(* one-character strings, so that lowercasing, trimming and the slug         *)
(* derivation are computed character by character.  In this specification    *)
(* the store is keyed by numbers: 0 is the seeded tenant and its seeded      *)
(* admin, 1..MaxRegistrations are the documents register creates.            *)

RegIds ==
  0 .. MaxRegistrations

\* String.prototype.toLowerCase, on the letters the inputs use
toLowerChar(c) ==
  CASE c = "A" -> "a"
    [] c = "B" -> "b"
    [] c = "C" -> "c"
    [] c = "N" -> "n"
    [] OTHER -> c

toLowerCase(text) ==
  [i \in 1 .. Len(text) |-> toLowerChar(text[i])]

\* [a-z0-9]
LowerAlnum ==
  {"a", "b", "c", "e", "f", "i", "m", "n", "o", "1"}

\* \w of the inputs
WordChars ==
  LowerAlnum \cup {"A", "B", "C", "N"}

RECURSIVE TrimLeft(_)
TrimLeft(text) ==
  IF text # <<>> /\ Head(text) = " " THEN TrimLeft(Tail(text)) ELSE text

RECURSIVE TrimRight(_)
TrimRight(text) ==
  IF text # <<>> /\ text[Len(text)] = " "
  THEN TrimRight(SubSeq(text, 1, Len(text) - 1))
  ELSE text

\* String.prototype.trim / the validator's and the schema's trim
Trim(text) ==
  TrimRight(TrimLeft(text))

\* .replace(/c+/g, '-'): every maximal run of the character c becomes one "-"
RECURSIVE ReplaceRuns(_, _)
ReplaceRuns(text, c) ==
  IF text = <<>> THEN <<>>
  ELSE IF Head(text) # c THEN <<Head(text)>> \o ReplaceRuns(Tail(text), c)
  ELSE IF Tail(text) # <<>> /\ Head(Tail(text)) = c
  THEN ReplaceRuns(Tail(text), c)
  ELSE <<"-">> \o ReplaceRuns(Tail(text), c)

IsSlugSource(c) ==
  c \in LowerAlnum \cup {" ", "-"}

\* the slug register derives from the tenant name: lowercase, drop what is
\* not [a-z0-9\s-], whitespace runs to "-", hyphen runs to "-", trim
tenantSlugOf(tenantName) ==
  Trim(ReplaceRuns(ReplaceRuns(SelectSeq(toLowerCase(tenantName), IsSlugSource),
                               " "), "-"))

\* tenantSchema slug: setters lowercase and trim, then required, match
\* /^[a-z0-9-]+$/, minlength 2, maxlength 50
slugValid(slug) ==
  LET v == Trim(toLowerCase(slug))
  IN /\ Len(v) >= SlugMin
     /\ Len(v) <= SlugMax
     /\ \A i \in 1 .. Len(v) : v[i] \in LowerAlnum \cup {"-"}

\* tenantSchema name: trim, minlength 2, maxlength 100
nameValid(tenantName) ==
  /\ Len(Trim(tenantName)) >= TenantNameMin
  /\ Len(Trim(tenantName)) <= TenantNameMax

Positions(text, c) ==
  {i \in 1 .. Len(text) : text[i] = c}

LastPosition(text, c) ==
  CHOOSE i \in Positions(text, c) : \A j \in Positions(text, c) : j <= i

\* isEmail of the validator, for addresses made of word characters, "+",
\* "." and "@": one "@", a local part, a domain with a top-level domain of
\* two or more letters
isEmail(email) ==
  /\ Cardinality(Positions(email, "@")) = 1
  /\ LastPosition(email, "@") > 1
  /\ Positions(email, ".") # {}
  /\ LastPosition(email, ".") > LastPosition(email, "@") + 1
  /\ Len(email) - LastPosition(email, ".") >= 2
  /\ \A i \in 1 .. Len(email) : email[i] \in WordChars \cup {"@", ".", "+"}

\* userSchema email match, for addresses of the shape local@name.tld: word
\* characters only beside "@" and ".", and a top-level domain of 2 or 3
\* characters
emailMatches(email) ==
  /\ isEmail(email)
  /\ \A i \in 1 .. Len(email) : email[i] \in WordChars \cup {"@", "."}
  /\ Len(email) - LastPosition(email, ".") <= TldMax

\* validateRegister password: six characters or more with a lowercase
\* letter, an uppercase letter and a digit; passwords are kept opaque and the
\* one password that satisfies the rule is "Passw0rd"
passwordValid(password) ==
  password = "Passw0rd"

\* validateRegister: isEmail, the password rule, tenantName of 2 to 100
\* characters
validRegister(email, password, tenantName) ==
  /\ isEmail(email)
  /\ passwordValid(password)
  /\ Len(tenantName) >= TenantNameMin
  /\ Len(tenantName) <= TenantNameMax

\* User.findOne({ email }) that looks at active users only
findUserByEmailActive(email) ==
  {u \in RegIds : users[u].exists /\ users[u].isActive /\ users[u].email = email}

\* User.findOne({ email })
findUserByEmail(email) ==
  {u \in RegIds : users[u].exists /\ users[u].email = email}

\* Tenant.findOne({ slug })
findTenantBySlug(slug) ==
  {t \in RegIds : tenants[t].exists /\ tenants[t].slug = slug}

\* new Tenant({ slug, name, plan: 'free', noteLimit: 3, isActive: true })
NewTenant(slug) ==
  [NoTenant EXCEPT !.exists = TRUE, !.slug = Trim(toLowerCase(slug)),
                   !.plan = "free", !.noteLimit = FreeNoteLimit,
                   !.isActive = TRUE]

\* new User({ email, password, tenantId, role: 'admin', permissions, ... })
NewAdmin(email, password, tenantId) ==
  [NoUser EXCEPT !.exists = TRUE, !.email = email, !.password = password,
                 !.tenantId = tenantId, !.role = "admin",
                 !.permissions = PermissionNames, !.isActive = TRUE]

\* POST /api/auth/register : validateRegister, then register
register(email, password, tenantName) ==
  LET sentEmail == toLowerCase(email)
      sentName == Trim(tenantName)
      lowerEmail == toLowerCase(sentEmail)
      tenantSlug == tenantSlugOf(sentName)
      R(status, code) ==
        [NoResp EXCEPT !.op = "register", !.status = status, !.code = code,
                       !.email = email, !.password = password,
                       !.tenantName = tenantName]
      \* the _id values new Tenant and new User would get
      FreshTenantIds == {t \in RegIds : ~tenants[t].exists}
      FreshUserIds == {u \in RegIds : ~users[u].exists}
  IN
  /\ FreshTenantIds # {}
  /\ FreshUserIds # {}
  /\ LET t == CHOOSE x \in FreshTenantIds : \A y \in FreshTenantIds : x <= y
         u == CHOOSE x \in FreshUserIds : \A y \in FreshUserIds : x <= y
     IN
     IF ~validRegister(email, password, tenantName)
     THEN /\ resp' = R(400, "VALIDATION_ERROR")
          /\ UNCHANGED <<users, tenants>>
     ELSE IF findUserByEmail(lowerEmail) # {}
     THEN /\ resp' = R(409, "USER_EXISTS")
          /\ UNCHANGED <<users, tenants>>
     ELSE IF findTenantBySlug(tenantSlug) # {}
     THEN /\ resp' = R(409, "TENANT_EXISTS")
          /\ UNCHANGED <<users, tenants>>
     ELSE IF ~slugValid(tenantSlug) \/ ~nameValid(sentName)
     THEN \* tenant.save() rejects
          /\ resp' = R(500, "REGISTRATION_SERVICE_ERROR")
          /\ UNCHANGED <<users, tenants>>
     ELSE IF ~emailMatches(lowerEmail)
     THEN \* tenant.save() done, user.save() rejects
          /\ tenants' = [tenants EXCEPT ![t] = NewTenant(tenantSlug)]
          /\ resp' = R(500, "REGISTRATION_SERVICE_ERROR")
          /\ UNCHANGED users
     ELSE /\ tenants' = [tenants EXCEPT ![t] =
                           incrementUsageOf(NewTenant(tenantSlug), "users", 1)]
          /\ users' = [users EXCEPT ![u] = NewAdmin(lowerEmail, password, t)]
          /\ resp' = [R(201, "OK") EXCEPT !.userId = u, !.tenantId = t,
                                          !.issued = IssuedTokens(u, t, "admin", now)]
  /\ UNCHANGED <<build, now, notes, tokens, reqs, hist>>

\* b@n.co, B@N.co, A@a.co (the seeded admin is a@a.co), b@n.info, b+c@n.co,
\* bn.co
RegisterEmails ==
  {<<"b", "@", "n", ".", "c", "o">>,
   <<"B", "@", "N", ".", "c", "o">>,
   <<"A", "@", "a", ".", "c", "o">>,
   <<"b", "@", "n", ".", "i", "n", "f", "o">>,
   <<"b", "+", "c", "@", "n", ".", "c", "o">>,
   <<"b", "n", ".", "c", "o">>}

RegisterPasswords ==
  {"Passw0rd", "password"}

\* "Acme Co", "acme  co!", "Acme" (the seeded tenant is acme), " b1 ", "!!",
\* "a"
RegisterNames ==
  {<<"A", "c", "m", "e", " ", "C", "o">>,
   <<"a", "c", "m", "e", " ", " ", "c", "o", "!">>,
   <<"A", "c", "m", "e">>,
   <<" ", "b", "1", " ">>,
   <<"!", "!">>,
   <<"a">>}

InitRegister ==
  /\ build = "db"
  /\ now = 0
  /\ \E active \in BOOLEAN :
       users = [u \in RegIds |->
                  IF u = 0
                  THEN [SeedUser(<<"a", "@", "a", ".", "c", "o">>, 0, "admin") EXCEPT !.isActive = active]
                  ELSE NoUser]
  /\ tenants = [t \in RegIds |->
                  IF t = 0
                  THEN [SeedTenants["acme"] EXCEPT !.slug = <<"a", "c", "m", "e">>,
                                                  !.currentUserCount = 1]
                  ELSE NoTenant]
  /\ notes = NoNotes
  /\ tokens = {}
  /\ reqs = <<>>
  /\ resp = NoResp
  /\ hist = NoHist

NextRegister ==
  \E email \in RegisterEmails, password \in RegisterPasswords,
     tenantName \in RegisterNames :
    register(email, password, tenantName)

SpecRegister ==
  InitRegister /\ [][NextRegister]_vars

-----------------------------------------------------------------------------
(* Registration under concurrency: the handler's two findOne calls, its two *)
(* save calls and incrementUsage are separate store operations; reqs[r]     *)
(* holds the handler's position, its input and its tenant document.         *)

RegReqIds ==
  1 .. MaxRegistrations

\* b@n.co, B@N.co, c@n.co
ConcRegisterEmails ==
  {<<"b", "@", "n", ".", "c", "o">>,
   <<"B", "@", "N", ".", "c", "o">>,
   <<"c", "@", "n", ".", "c", "o">>}

\* "Acme Co", " b1 "
ConcRegisterNames ==
  {<<"A", "c", "m", "e", " ", "C", "o">>,
   <<" ", "b", "1", " ">>}

IdleRegister(email, tenantName) ==
  [pc |-> "findUser", email |-> toLowerCase(email), tenantName |-> Trim(tenantName),
   tenantId |-> 0, tenant |-> NoTenant, status |-> 0, code |-> None]

RegisterDone(req, status, code) ==
  [req EXCEPT !.pc = "done", !.status = status, !.code = code]

RegisterStepResp(req, status, code) ==
  [NoResp EXCEPT !.op = "register", !.status = status, !.code = code,
                 !.email = req.email, !.tenantName = req.tenantName]

\* await User.findOne({ email: email.toLowerCase() })
registerFindUser(r) ==
  /\ reqs[r].pc = "findUser"
  /\ IF findUserByEmail(toLowerCase(reqs[r].email)) # {}
     THEN /\ reqs' = [reqs EXCEPT ![r] = RegisterDone(@, 409, "USER_EXISTS")]
          /\ resp' = RegisterStepResp(reqs[r], 409, "USER_EXISTS")
     ELSE /\ reqs' = [reqs EXCEPT ![r].pc = "findTenant"]
          /\ resp' = NoResp
  /\ UNCHANGED <<build, now, users, tenants, notes, tokens, hist>>

\* await Tenant.findOne({ slug: tenantSlug })
registerFindTenant(r) ==
  /\ reqs[r].pc = "findTenant"
  /\ IF findTenantBySlug(tenantSlugOf(reqs[r].tenantName)) # {}
     THEN /\ reqs' = [reqs EXCEPT ![r] = RegisterDone(@, 409, "TENANT_EXISTS")]
          /\ resp' = RegisterStepResp(reqs[r], 409, "TENANT_EXISTS")
     ELSE /\ reqs' = [reqs EXCEPT ![r].pc = "saveTenant"]
          /\ resp' = NoResp
  /\ UNCHANGED <<build, now, users, tenants, notes, tokens, hist>>

\* await tenant.save(): the unique index on slug rejects a second tenant
\* with the slug and the handler ends in its catch clause
registerSaveTenant(r) ==
  /\ reqs[r].pc = "saveTenant"
  /\ LET tenantSlug == tenantSlugOf(reqs[r].tenantName)
         fresh == {t \in RegIds : ~tenants[t].exists}
     IN IF ~slugValid(tenantSlug) \/ ~nameValid(reqs[r].tenantName)
           \/ findTenantBySlug(Trim(toLowerCase(tenantSlug))) # {}
        THEN /\ reqs' = [reqs EXCEPT ![r] = RegisterDone(@, 500, "REGISTRATION_SERVICE_ERROR")]
             /\ resp' = RegisterStepResp(reqs[r], 500, "REGISTRATION_SERVICE_ERROR")
             /\ UNCHANGED tenants
        ELSE /\ fresh # {}
             /\ LET t == CHOOSE x \in fresh : \A y \in fresh : x <= y
                IN /\ tenants' = [tenants EXCEPT ![t] = NewTenant(tenantSlug)]
                   /\ reqs' = [reqs EXCEPT ![r].pc = "saveUser", ![r].tenantId = t,
                                           ![r].tenant = NewTenant(tenantSlug)]
             /\ resp' = NoResp
  /\ UNCHANGED <<build, now, users, notes, tokens, hist>>

\* await user.save(): the unique index is on (email, tenantId)
registerSaveUser(r) ==
  /\ reqs[r].pc = "saveUser"
  /\ LET email == reqs[r].email
         fresh == {u \in RegIds : ~users[u].exists}
         sameKey == {u \in RegIds : /\ users[u].exists
                                    /\ users[u].email = email
                                    /\ users[u].tenantId = reqs[r].tenantId}
     IN IF ~emailMatches(email) \/ sameKey # {}
        THEN /\ reqs' = [reqs EXCEPT ![r] = RegisterDone(@, 500, "REGISTRATION_SERVICE_ERROR")]
             /\ resp' = RegisterStepResp(reqs[r], 500, "REGISTRATION_SERVICE_ERROR")
             /\ UNCHANGED users
        ELSE /\ fresh # {}
             /\ LET u == CHOOSE x \in fresh : \A y \in fresh : x <= y
                IN users' = [users EXCEPT ![u] = NewAdmin(email, "Passw0rd", reqs[r].tenantId)]
             /\ reqs' = [reqs EXCEPT ![r].pc = "incrementUsage"]
             /\ resp' = NoResp
  /\ UNCHANGED <<build, now, tenants, notes, tokens, hist>>

\* await tenant.incrementUsage('users', 1), then the 201 response
registerIncrementUsage(r) ==
  /\ reqs[r].pc = "incrementUsage"
  /\ tenants' = [tenants EXCEPT ![reqs[r].tenantId] =
                   incrementUsageOf(reqs[r].tenant, "users", 1)]
  /\ reqs' = [reqs EXCEPT ![r] = RegisterDone(@, 201, "OK")]
  /\ resp' = [RegisterStepResp(reqs[r], 201, "OK") EXCEPT !.tenantId = reqs[r].tenantId]
  /\ UNCHANGED <<build, now, users, notes, tokens, hist>>

InitRegisterConc ==
  /\ build = "db"
  /\ now = 0
  /\ users = [u \in RegIds |->
                IF u = 0
                THEN SeedUser(<<"a", "@", "a", ".", "c", "o">>, 0, "admin")
                ELSE NoUser]
  /\ tenants = [t \in RegIds |->
                  IF t = 0
                  THEN [SeedTenants["acme"] EXCEPT !.slug = <<"a", "c", "m", "e">>,
                                                  !.currentUserCount = 1]
                  ELSE NoTenant]
  /\ notes = NoNotes
  /\ tokens = {}
  /\ reqs \in [RegReqIds -> {IdleRegister(email, tenantName) :
                                email \in ConcRegisterEmails,
                                tenantName \in ConcRegisterNames}]
  /\ resp = NoResp
  /\ hist = NoHist

NextRegisterConc ==
  \/ \E r \in RegReqIds : registerFindUser(r)
  \/ \E r \in RegReqIds : registerFindTenant(r)
  \/ \E r \in RegReqIds : registerSaveTenant(r)
  \/ \E r \in RegReqIds : registerSaveUser(r)
  \/ \E r \in RegReqIds : registerIncrementUsage(r)

SpecRegisterConc ==
  InitRegisterConc /\ [][NextRegisterConc]_vars

-----------------------------------------------------------------------------
(* Token service with the full claim set: what jwt.sign puts into a token   *)
(* and what jwt.verify gives back.  The tokens of the resolver sections are *)
(* the projection of these on userId, tenantId, tokenType and exp.          *)

ClaimFields ==
  {"userId", "email", "tenantId", "tenantSlug", "role", "permissions"}

\* the claim set login and register build for a stored user
ClaimSetOf(u) ==
  [userId |-> u, email |-> SeedUsers[u].email,
   tenantId |-> SeedUsers[u].tenantId,
   tenantSlug |-> SeedTenants[SeedUsers[u].tenantId].slug,
   role |-> SeedUsers[u].role, permissions |-> SeedUsers[u].permissions]

ClaimSets ==
  {ClaimSetOf(u) : u \in {"adminAcme", "adminGlobex", "ann"}}

\* crypto.randomUUID(): any value
Jtis ==
  {"jti1", "jti2"}

\* tokenPayload of generateToken
accessTokenPayload(payload) ==
  [userId |-> payload.userId, email |-> payload.email,
   tenantId |-> payload.tenantId, tenantSlug |-> payload.tenantSlug,
   role |-> payload.role, permissions |-> payload.permissions,
   tokenType |-> "access"]

\* tokenPayload of generateRefreshToken
refreshTokenPayload(payload, jti) ==
  [userId |-> payload.userId, tenantId |-> payload.tenantId,
   tokenType |-> "refresh", jti |-> jti]

\* jwt.sign(tokenPayload, JWT_SECRET, { expiresIn, issuer, audience }): the
\* signed text holds the payload, iat, exp, iss and aud
jwtSign(tokenPayload, ttl, audience, t) ==
  [claims |-> tokenPayload, iat |-> t, exp |-> t + ttl,
   iss |-> "notes-saas", aud |-> audience, sig |-> "ok"]

\* jwt.verify that still accepts a token at its expiry time
jwtVerifyLate(tok, t) ==
  IF /\ tok.sig = "ok"
     /\ t <= tok.exp
     /\ tok.iss = "notes-saas"
     /\ tok.aud \in {"notes-saas-users", "notes-saas-refresh"}
  THEN [ok |-> TRUE,
        decoded |-> [f \in DOMAIN tok.claims \cup {"iat", "exp", "iss", "aud"} |->
                       IF f \in DOMAIN tok.claims THEN tok.claims[f] ELSE tok[f]]]
  ELSE [ok |-> FALSE, decoded |-> <<>>]

\* verifyToken: jwt.verify(token, JWT_SECRET, { issuer, audience: [...] });
\* the decoded object is the payload with iat, exp, iss and aud
jwtVerify(tok, t) ==
  IF /\ tok.sig = "ok"
     /\ t < tok.exp
     /\ tok.iss = "notes-saas"
     /\ tok.aud \in {"notes-saas-users", "notes-saas-refresh"}
  THEN [ok |-> TRUE,
        decoded |-> [f \in DOMAIN tok.claims \cup {"iat", "exp", "iss", "aud"} |->
                       IF f \in DOMAIN tok.claims THEN tok.claims[f] ELSE tok[f]]]
  ELSE [ok |-> FALSE, decoded |-> <<>>]

\* the times at which the token specification looks at a token
TokenClock ==
  {0, 1, AccessTtl, AccessTtl + 1, RefreshTtl, RefreshTtl + 1}

callGenerateToken(payload) ==
  /\ Cardinality(tokens) < MaxSigned
  /\ tokens' = tokens \cup
       {jwtSign(accessTokenPayload(payload), AccessTtl, "notes-saas-users", now)}
  /\ resp' = [NoResp EXCEPT !.op = "generateToken"]
  /\ UNCHANGED <<build, now, users, tenants, notes, reqs, hist>>

callGenerateRefreshToken(payload, jti) ==
  /\ Cardinality(tokens) < MaxSigned
  /\ tokens' = tokens \cup
       {jwtSign(refreshTokenPayload(payload, jti), RefreshTtl,
                "notes-saas-refresh", now)}
  /\ resp' = [NoResp EXCEPT !.op = "generateRefreshToken"]
  /\ UNCHANGED <<build, now, users, tenants, notes, reqs, hist>>

\* verifyToken on an issued token, or on one whose signature was altered
callVerifyToken(tok, sig) ==
  /\ tok \in tokens
  /\ LET presented == [tok EXCEPT !.sig = sig]
         r == jwtVerify(presented, now)
     IN resp' = [NoResp EXCEPT !.op = "verifyToken", !.token = presented,
                               !.ok = r.ok, !.decoded = r.decoded]
  /\ UNCHANGED <<build, now, users, tenants, notes, tokens, reqs, hist>>

AdvanceClock(t) ==
  /\ t \in TokenClock
  /\ t > now
  /\ now' = t
  /\ resp' = NoResp
  /\ UNCHANGED <<build, users, tenants, notes, tokens, reqs, hist>>

NextToken ==
  \/ \E payload \in ClaimSets : callGenerateToken(payload)
  \/ \E payload \in ClaimSets, jti \in Jtis : callGenerateRefreshToken(payload, jti)
  \/ \E tok \in tokens, sig \in {"ok", "bad"} : callVerifyToken(tok, sig)
  \/ \E t \in TokenClock : AdvanceClock(t)

SpecToken ==
  InitStore /\ [][NextToken]_vars

-----------------------------------------------------------------------------
(* Tenant isolation middleware and the two helpers it installs.  A query or *)
(* a document is a function from field names to values.                     *)

QueryFields ==
  {"tenantId", "userId", "status"}

QueryValues ==
  {"acme", "globex", "draft"}

Queries ==
  UNION {[D -> QueryValues] : D \in SUBSET QueryFields}

\* a helper that writes the tenant into the object it was given
\* (Object.assign(query, { tenantId }))
addTenantAssign(q, auth) ==
  LET merged == [f \in DOMAIN q \cup {"tenantId"} |->
                   IF f = "tenantId" THEN auth.tenantId ELSE q[f]]
  IN [out |-> merged, argAfter |-> merged]

\* req.addTenantFilter / req.addTenantData: { ...q, tenantId: req.auth.tenantId },
\* a new object; the argument is left as it was
addTenant(q, auth) ==
  [out |-> [f \in DOMAIN q \cup {"tenantId"} |->
              IF f = "tenantId" THEN auth.tenantId ELSE q[f]],
   argAfter |-> q]

\* what req.auth can be when the middleware runs: absent, the principal of a
\* stored user, or a principal without a tenant
AuthValues ==
  {NoPrincipal} \cup {Principal(u) : u \in UserIds}
    \cup {[Principal(u) EXCEPT !.tenantId = None] : u \in {"ann"}}

\* one request through ensureTenantIsolation and a next handler that calls
\* one of the helpers on q
ensureTenantIsolation(auth, helper, q) ==
  /\ IF auth = NoPrincipal \/ auth.tenantId = None
     THEN resp' = [NoResp EXCEPT !.op = helper, !.status = 401,
                                 !.code = "TENANT_CONTEXT_REQUIRED",
                                 !.principal = auth, !.arg = q,
                                 !.argAfter = q, !.result = FALSE]
     ELSE resp' = [NoResp EXCEPT !.op = helper, !.status = 200, !.code = "OK",
                                 !.principal = auth, !.arg = q,
                                 !.argAfter = addTenant(q, auth).argAfter,
                                 !.out = addTenant(q, auth).out,
                                 !.result = TRUE]
  /\ UNCHANGED <<build, now, users, tenants, notes, tokens, reqs, hist>>

NextIsolation ==
  \E auth \in AuthValues, helper \in {"addTenantFilter", "addTenantData"},
     q \in Queries :
    ensureTenantIsolation(auth, helper, q)

SpecIsolation ==
  InitStore /\ [][NextIsolation]_vars

-----------------------------------------------------------------------------
(* Requests for one note by its id *)

\* request bodies that carry at most one of the unchecked fields
OwnerBodies ==
  {body \in UpdateBodies :
     Cardinality({f \in {"tenantId", "userId", "isDeleted"} : body[f] # Absent}) <= 1}

NextOwner ==
  \/ \E u \in NoteUsers :
       /\ Cardinality(NoteIds \ FreeNoteIds) < MaxIsoNotes
       /\ createNote(u)
  \/ \E u \in NoteUsers, id \in NoteIds : getNoteById(u, id)
  \/ \E u \in NoteUsers, id \in NoteIds, body \in OwnerBodies : updateNote(u, id, body)
  \/ \E u \in NoteUsers, id \in NoteIds : deleteNote(u, id)

SpecOwner ==
  InitNotes /\ [][NextOwner]_vars

-----------------------------------------------------------------------------
(* The two permission checks.  A user's permissions field is the set of the *)
(* flags that are true.                                                     *)

\* the six flags of the schema and a name the schema does not have
CheckedPermissions ==
  PermissionNames \cup {"canExport"}

\* a check that looks at the stored flag only
hasPermissionFlagOnly(user, permission) ==
  user.isActive /\ permission \in user.permissions

\* userSchema.methods.hasPermission
hasPermission(user, permission) ==
  IF ~user.isActive THEN FALSE
  ELSE IF user.role = "admin" THEN TRUE
  ELSE permission \in user.permissions

\* GET/POST ... behind authenticate and requirePermission(permission): req.auth
\* and req.user are what the resolver loaded for user u
requirePermission(u, permission) ==
  /\ Authenticated(u)
  /\ LET auth == Principal(u)
         user == users[u]
     IN resp' = IF auth.isAdmin
                THEN [NoteResp("requirePermission", auth, 200, "OK")
                        EXCEPT !.type = permission, !.result = TRUE]
                ELSE IF permission \notin user.permissions
                THEN [NoteResp("requirePermission", auth, 403, "PERMISSION_DENIED")
                        EXCEPT !.type = permission, !.result = FALSE]
                ELSE [NoteResp("requirePermission", auth, 200, "OK")
                        EXCEPT !.type = permission, !.result = TRUE]
  /\ UNCHANGED <<build, now, users, tenants, notes, tokens, reqs, hist>>

\* user.hasPermission(permission) on the stored user u
callHasPermission(u, permission) ==
  /\ users[u].exists
  /\ resp' = [NoResp EXCEPT !.op = "hasPermission", !.userId = u,
                            !.type = permission,
                            !.result = hasPermission(users[u], permission)]
  /\ UNCHANGED <<build, now, users, tenants, notes, tokens, reqs, hist>>

\* the store with user ann in every role, with every set of flags, active or
\* not
InitPermission ==
  /\ build = "db"
  /\ now = 0
  /\ \E role \in {"admin", "member"}, flags \in SUBSET PermissionNames,
        active \in BOOLEAN :
       users = [SeedUsers EXCEPT !["ann"].role = role,
                                 !["ann"].permissions = flags,
                                 !["ann"].isActive = active]
  /\ tenants = SeedTenants
  /\ notes = NoNotes
  /\ tokens = {}
  /\ reqs = <<>>
  /\ resp = NoResp
  /\ hist = NoHist

NextPermission ==
  \/ \E u \in UserIds, permission \in CheckedPermissions :
       requirePermission(u, permission)
  \/ \E u \in UserIds, permission \in CheckedPermissions :
       callHasPermission(u, permission)

SpecPermission ==
  InitPermission /\ [][NextPermission]_vars

-----------------------------------------------------------------------------
(* The quota gate as a function of the tenant document *)

SubscriptionStatuses ==
  {"active", "inactive", "suspended", "cancelled"}

\* tenant documents the schema admits: a free plan with a limit of 1..10, a
\* pro plan with no limit or a positive one
GateTenants ==
  {[SeedTenant("acme", plan, limit, 3) EXCEPT
      !.isActive = active, !.status = status, !.currentNoteCount = count] :
     plan \in {"free", "pro"}, limit \in {Unlimited, 1, FreeNoteLimit, FreeNoteLimitMax},
     active \in BOOLEAN, status \in SubscriptionStatuses, count \in 0..MaxNotes}
  \ {g \in [exists : {TRUE}, slug : {"acme"}, plan : {"free"}, noteLimit : {Unlimited},
            status : SubscriptionStatuses, isActive : BOOLEAN,
            currentNoteCount : 0..MaxNotes, currentUserCount : {3}, storageUsed : {0}] : TRUE}

\* reading the canCreateNotes virtual of a stored tenant
readCanCreateNotes(t) ==
  /\ tenants[t].exists
  /\ resp' = [NoResp EXCEPT !.op = "canCreateNotes", !.status = 200, !.code = "OK",
                            !.tenantId = t,
                            !.result = canCreateNotes(tenants[t]),
                            !.currentCount = tenants[t].currentNoteCount,
                            !.limit = tenants[t].noteLimit,
                            !.plan = tenants[t].plan]
  /\ UNCHANGED <<build, now, users, tenants, notes, tokens, reqs, hist>>

InitGate ==
  /\ build = "db"
  /\ now = 0
  /\ users = SeedUsers
  /\ tenants \in {[SeedTenants EXCEPT !["acme"] = g] : g \in GateTenants}
  /\ notes = NoNotes
  /\ tokens = {}
  /\ reqs = <<>>
  /\ resp = NoResp
  /\ hist = NoHist

NextGate ==
  \E t \in TenantIds : readCanCreateNotes(t)

SpecGate ==
  InitGate /\ [][NextGate]_vars

-----------------------------------------------------------------------------
(* Saving a tenant whose plan was changed and whose noteLimit was left as   *)
(* it was: only the modified path is validated, then the pre-save hook runs *)

changePlan(k, plan) ==
  /\ tenants[k].exists
  /\ plan # tenants[k].plan
  /\ tenants' = [tenants EXCEPT ![k] = tenantPreSave(@, [@ EXCEPT !.plan = plan])]
  /\ resp' = [NoResp EXCEPT !.op = "changePlan", !.status = 200, !.code = "OK",
                            !.tenantId = k, !.plan = tenants[k].plan,
                            !.limit = tenants[k].noteLimit]
  /\ UNCHANGED <<build, now, users, notes, tokens, reqs, hist>>

NextPlan ==
  \E k \in TenantIds, plan \in {"free", "pro"} : changePlan(k, plan)

SpecPlan ==
  InitGate /\ [][NextPlan]_vars

-----------------------------------------------------------------------------
(* Properties of the notes controller *)

NoteOps ==
  {"createNote", "getNotes", "getNoteById", "updateNote", "deleteNote",
   "searchNotes", "getNotesStats"}

\* the non-deleted notes of tenant t
LiveNotes(t) ==
  {n \in NoteIds : notes[n].exists /\ notes[n].tenantId = t /\ ~notes[n].isDeleted}

\* C1: every note a notes request returns or modifies belongs to the
\* requesting principal's tenant, and no request changes the tenantId of an
\* existing note.
C1_TenantIsolation ==
  /\ [](resp.op \in NoteOps =>
          \A n \in resp.returned \cup resp.modified : notes[n].tenantId = resp.tenantId)
  /\ [][\A n \in NoteIds : notes[n].exists => notes'[n].tenantId = notes[n].tenantId]_vars

\* C8: after any sequence of createNote and deleteNote requests executed
\* one after another, every tenant's usage.currentNoteCount equals the number
\* of its notes with isDeleted = false.
C8_CountMatchesLiveNotes ==
  \A t \in TenantIds :
    tenants[t].exists => tenants[t].currentNoteCount = Cardinality(LiveNotes(t))

\* a note was created and another soft-deleted, leaving a non-zero count
C8_Witness ==
  /\ resp.op = "deleteNote"
  /\ resp.status = 200
  /\ tenants[resp.tenantId].currentNoteCount >= 1

\* no handler is in flight
AllDone ==
  \A r \in ReqIds : reqs[r].pc \in {"idle", "done"}

\* C9: for any interleaving of concurrent createNote and deleteNote requests
\* on one tenant, once all requests have completed usage.currentNoteCount
\* equals the number of non-deleted notes of the tenant.
C9_ConcurrentCountMatches ==
  AllDone =>
    \A t \in TenantIds :
      tenants[t].exists => tenants[t].currentNoteCount = Cardinality(LiveNotes(t))

\* C10: a tenant with a finite noteLimit never has more non-deleted notes
\* than noteLimit, also under interleaved createNote requests.
C10_LiveNotesWithinLimit ==
  \A t \in TenantIds :
    (tenants[t].exists /\ ~hasUnlimitedNotes(tenants[t])) =>
      Cardinality(LiveNotes(t)) <= tenants[t].noteLimit

-----------------------------------------------------------------------------
(* Properties of login *)

\* C2: for an active user, after 5 consecutive login calls with a wrong
\* password and no successful login between them, the next login call for
\* that user (made before the lock would run out) answers 423 ACCOUNT_LOCKED
\* with lockUntil = time of the 5th failure + 2 hours, whatever its password.
C2_LockedAfterFiveFailures ==
  (/\ resp.op = "login"
   /\ resp.streak = MaxLoginAttempts
   /\ resp.before.exists
   /\ resp.before.isActive
   /\ now < hist.fifthAt[resp.email] + LockHours)
  => /\ resp.status = 423
     /\ resp.code = "ACCOUNT_LOCKED"
     /\ resp.lockUntil = hist.fifthAt[resp.email] + LockHours

\* the response and the effect of a login that was turned away by the lock
LockedLoginRejected ==
  /\ resp.status = 423
  /\ resp.code = "ACCOUNT_LOCKED"
  /\ resp.lockUntil = resp.before.lockUntil
  /\ resp.issued = {}
  /\ ~resp.compared
  /\ UserByEmail(resp.email).loginAttempts = resp.before.loginAttempts
  /\ UserByEmail(resp.email).lockUntil = resp.before.lockUntil
  /\ UserByEmail(resp.email).lastLogin = resp.before.lastLogin

\* C3 (as stated): while a user's lockUntil is later than the current time,
\* every login call for that user answers 423 ACCOUNT_LOCKED echoing the
\* stored lockUntil, issues no tokens, compares no password and leaves
\* loginAttempts, lockUntil and lastLogin unchanged.
C3_LockedLoginRejected ==
  (/\ resp.op = "login"
   /\ resp.before.exists
   /\ resp.before.lockUntil > now)
  => LockedLoginRejected

\* C3 (amended): the same for every login call for an active user whose
\* lockUntil is later than the current time.
C3_LockedActiveLoginRejected ==
  (/\ resp.op = "login"
   /\ resp.before.exists
   /\ resp.before.isActive
   /\ resp.before.lockUntil > now)
  => LockedLoginRejected

\* a locked active user presented the correct password and was turned away
C3_Witness ==
  /\ resp.op = "login"
  /\ resp.before.exists
  /\ resp.before.isActive
  /\ resp.before.lockUntil > now
  /\ resp.password = resp.before.password
  /\ resp.status = 423

-----------------------------------------------------------------------------
(* Properties of the resolver and of token refresh *)

\* C4: authenticate attaches no principal for a verified token whose
\* tokenType is not 'access' and answers 401 INVALID_TOKEN_TYPE; refreshToken
\* issues no access token for a verified token whose tokenType is not
\* 'refresh' and turns it away by its tokenType check (INVALID_TOKEN_TYPE).
C4_TokenTypeChecked ==
  /\ (/\ resp.op = "authenticate"
      /\ verifyToken(resp.token, now)
      /\ resp.token.tokenType # "access")
     => /\ resp.status = 401
        /\ resp.code = "INVALID_TOKEN_TYPE"
        /\ resp.principal = NoPrincipal
  /\ (/\ resp.op = "refreshToken"
      /\ verifyToken(resp.token, now)
      /\ resp.token.tokenType # "refresh")
     => /\ resp.issued = {}
        /\ resp.code = "INVALID_TOKEN_TYPE"

\* the facts about a presented token the outcome of authenticate depends on
TokenPresent(tok) ==
  tok # NoToken

TokenVerifies(tok) ==
  tok.sig = "ok" /\ now < tok.exp

IsMockToken(tok) ==
  build = "mock" /\ tok.userId \in MockUserIds

UserExists(tok) ==
  IsMockToken(tok) \/ (tok.userId \in UserIds /\ users[tok.userId].exists)

UserIsActive(tok) ==
  IsMockToken(tok) \/ (tok.userId \in UserIds /\ users[tok.userId].isActive)

TenantExistsAndIsActive(tok) ==
  \/ IsMockToken(tok)
  \/ /\ tok.userId \in UserIds
     /\ users[tok.userId].tenantId \in TenantIds
     /\ tenants[users[tok.userId].tenantId].exists
     /\ tenants[users[tok.userId].tenantId].isActive

TokenTenantIsUsersTenant(tok) ==
  IF IsMockToken(tok) THEN tok.tenantId = mockUsers[tok.userId].tenantId
  ELSE tok.userId \in UserIds /\ tok.tenantId = users[tok.userId].tenantId

\* the checks in the claimed order, each with the code of its failure
AuthChecks(tok) ==
  << [code |-> "NO_TOKEN",           passes |-> TokenPresent(tok)],
     [code |-> "INVALID_TOKEN",      passes |-> TokenVerifies(tok)],
     [code |-> "INVALID_TOKEN_TYPE", passes |-> tok.tokenType = "access"],
     [code |-> "USER_NOT_FOUND",     passes |-> UserExists(tok)],
     [code |-> "USER_INACTIVE",      passes |-> UserIsActive(tok)],
     [code |-> "TENANT_INACTIVE",    passes |-> TenantExistsAndIsActive(tok)],
     [code |-> "TENANT_MISMATCH",    passes |-> TokenTenantIsUsersTenant(tok)] >>

FailingChecks(tok) ==
  {i \in DOMAIN AuthChecks(tok) : ~AuthChecks(tok)[i].passes}

FirstFailingCode(tok) ==
  IF FailingChecks(tok) = {} THEN "OK"
  ELSE AuthChecks(tok)[CHOOSE i \in FailingChecks(tok) :
                         \A j \in FailingChecks(tok) : i <= j].code

MovedAway(tok) ==
  /\ tok.tokenType = "access"
  /\ tok.sig = "ok"
  /\ tok.userId \in UserIds
  /\ users[tok.userId].exists
  /\ users[tok.userId].tenantId # tok.tenantId

C7_PrincipalFromStore ==
  (resp.op = "authenticate" /\ resp.principal # NoPrincipal)
  => /\ resp.token.userId \in UserIds
     /\ users[resp.token.userId].exists
     /\ users[resp.token.userId].isActive
     /\ TenantOf(users[resp.token.userId]).exists
     /\ TenantOf(users[resp.token.userId]).isActive

-----------------------------------------------------------------------------
(* Properties of the quota gate *)

\* C11: for every tenant state the quota check canCreateNotes equals
\* isActive and subscription.status = 'active' and (noteLimit = -1 or
\* currentNoteCount < noteLimit); free with limit 3 and count 3 gives false,
\* count 2 gives true, and noteLimit = -1 gives true for every count of an
\* active tenant with an active subscription.
C11_QuotaGate ==
  resp.op = "canCreateNotes" =>
    LET t == tenants[resp.tenantId]
        open == t.isActive /\ t.status = "active"
    IN /\ resp.result = (open /\ (t.noteLimit = -1 \/ t.currentNoteCount < t.noteLimit))
       /\ (open /\ t.plan = "free" /\ t.noteLimit = 3 /\ t.currentNoteCount = 3) => ~resp.result
       /\ (open /\ t.plan = "free" /\ t.noteLimit = 3 /\ t.currentNoteCount = 2) => resp.result
       /\ (open /\ t.noteLimit = -1) => resp.result

\* the gate was read for a free tenant at its limit of 3
C11_Witness ==
  /\ resp.op = "canCreateNotes"
  /\ tenants[resp.tenantId].plan = "free"
  /\ tenants[resp.tenantId].isActive
  /\ tenants[resp.tenantId].status = "active"
  /\ resp.limit = 3
  /\ resp.currentCount = 3
  /\ ~resp.result

\* C12: createNote for a free tenant with noteLimit 3 and currentNoteCount 3
\* is denied with NOTE_LIMIT_REACHED carrying currentCount 3, limit 3 and
\* plan free, creates no note and changes no counter; once the tenant has
\* been upgraded the same request succeeds and the counter becomes 4.
C12_DeniedAtLimitUntilUpgrade ==
  /\ [][\A t \in TenantIds :
          (/\ resp'.op = "createNote"
           /\ resp'.tenantId = t
           /\ tenants[t].plan = "free"
           /\ tenants[t].noteLimit = 3
           /\ tenants[t].currentNoteCount = 3)
          => /\ resp'.status = 403
             /\ resp'.code = "NOTE_LIMIT_REACHED"
             /\ resp'.currentCount = 3
             /\ resp'.limit = 3
             /\ resp'.plan = "free"
             /\ notes' = notes
             /\ tenants' = tenants]_vars
  /\ [][\A t \in TenantIds :
          (/\ resp'.op = "createNote"
           /\ resp'.tenantId = t
           /\ tenants[t].plan = "pro"
           /\ tenants[t].currentNoteCount = 3)
          => /\ resp'.status = 201
             /\ tenants'[t].currentNoteCount = 4
             /\ Cardinality(LiveNotes(t))' = Cardinality(LiveNotes(t)) + 1]_vars

\* the upgraded tenant holds its fourth note
C12_Witness ==
  /\ resp.op = "createNote"
  /\ resp.status = 201
  /\ resp.tenantId = "acme"
  /\ tenants["acme"].plan = "pro"
  /\ tenants["acme"].currentNoteCount = 4
  /\ Cardinality(LiveNotes("acme")) = 4

\* C13: when the tenant usage write fails after the note write of createNote
\* (or after the soft-delete write of deleteNote) the whole operation is
\* aborted: the failed call leaves the notes and the counters as they were.
C13_FailedCallChangesNothing ==
  [][(resp'.op \in {"createNote", "deleteNote"} /\ resp'.status = 500)
       => (notes' = notes /\ tenants' = tenants)]_vars

\* C14: in every reachable state each usage counter (currentNoteCount,
\* currentUserCount, storageUsed) of every tenant is at least 0, and a
\* decrementUsage by an amount larger than the counter leaves the counter 0.
C14_UsageNeverNegative ==
  /\ \A k \in TenantIds : usageValid(tenants[k])
  /\ (resp.op = "decrementUsage" /\ resp.counter < resp.amount)
       => CounterOf(tenants[resp.tenantId], resp.type) = 0

C14_Witness ==
  /\ resp.op = "decrementUsage"
  /\ resp.counter = 1
  /\ resp.amount = 2
  /\ resp.type = "users"
  /\ tenants[resp.tenantId].currentUserCount = 0

\* the outcome the rules of login give, first match first, for the stored
\* user b with the e-mail address of the call and the password of the call
LoginRuleOutcome(b, password) ==
  IF ~b.exists \/ ~b.isActive THEN <<401, "INVALID_CREDENTIALS">>
  ELSE IF isLocked(b, now) THEN <<423, "ACCOUNT_LOCKED">>
  ELSE IF password # b.password THEN <<401, "INVALID_CREDENTIALS">>
  ELSE IF ~TenantOf(b).exists \/ ~TenantOf(b).isActive
  THEN <<403, "TENANT_INACTIVE">>
  ELSE <<200, "OK">>

\* C15: login answers with exactly one outcome, chosen by the first matching
\* rule: no active user with the e-mail address gives 401
\* INVALID_CREDENTIALS, a locked user 423 ACCOUNT_LOCKED, a password mismatch
\* 401 INVALID_CREDENTIALS, a missing or inactive tenant 403 TENANT_INACTIVE,
\* anything else success with an access and a refresh token.
C15_LoginFirstMatchingRule ==
  resp.op = "login"
    => /\ <<resp.status, resp.code>> = LoginRuleOutcome(resp.before, resp.password)
       /\ (resp.status = 200) = (resp.issued # {})

\* the user collection without a user of this e-mail address
Unregistered(store, email) ==
  [u \in UserIds |->
     IF store[u].exists /\ store[u].email = email THEN NoUser ELSE store[u]]

\* the response of login in the store that differs from the current one only
\* in that the e-mail address is not registered
loginUnregistered(email, password) ==
  IF build = "db"
  THEN loginDbIn(Unregistered(users, email), email, password)
  ELSE loginMockIn(Unregistered(users, email), email, password)

\* C16: a login call that does not end in success gets the same response
\* (status, code, body) whether or not the e-mail address is registered: no
\* failure response reveals that an e-mail address is registered.
C16_NoAccountEnumeration ==
  [][(resp'.op = "login" /\ resp'.status # 200)
       => LET other == loginUnregistered(resp'.email, resp'.password)
          IN <<resp'.status, resp'.code, resp'.lockUntil>>
               = <<other.status, other.code, other.lockUntil>>]_vars

\* C17: a login that succeeds leaves the user with loginAttempts 0, no
\* lockUntil and lastLogin at the current time, so only consecutive failures
\* count: a user with fewer than five failed logins since the last
\* successful one is never locked.
C17_SuccessClearsAttempts ==
  /\ (resp.op = "login" /\ resp.status = 200 /\ resp.before.exists)
       => /\ UserByEmail(resp.email).loginAttempts = 0
          /\ UserByEmail(resp.email).lockUntil = NoTime
          /\ UserByEmail(resp.email).lastLogin = now
  /\ \A e \in LoginEmails :
       (UserByEmail(e).exists /\ hist.streak[e] < MaxLoginAttempts)
         => /\ UserByEmail(e).lockUntil = NoTime
            /\ UserByEmail(e).loginAttempts < MaxLoginAttempts

\* C18: after the fifth consecutive failed login of an active user at time t
\* the user is locked at every time before t + 2h and not locked from
\* t + 2h on, with no further write to the user; a login with the correct
\* password from t + 2h on succeeds and resets loginAttempts to 0.
C18_LockedForTwoHours ==
  /\ \A e \in LoginEmails :
       (/\ hist.streak[e] = MaxLoginAttempts
        /\ UserByEmail(e).exists
        /\ UserByEmail(e).isActive)
       => (isLocked(UserByEmail(e), now) <=> now < hist.fifthAt[e] + LockHours)
  /\ (/\ resp.op = "login"
      /\ resp.streak = MaxLoginAttempts
      /\ resp.before.exists
      /\ resp.before.isActive
      /\ resp.password = resp.before.password
      /\ TenantOf(resp.before).exists
      /\ TenantOf(resp.before).isActive
      /\ now >= hist.fifthAt[resp.email] + LockHours)
     => /\ resp.status = 200
        /\ UserByEmail(resp.email).loginAttempts = 0

\* C19: a register call that passes validation, with an e-mail address no
\* user has and a derived slug no tenant has, creates exactly one tenant
\* (the derived slug, plan free, noteLimit 3, active, currentUserCount 1) and
\* exactly one user (the lowercased address, role admin, all six permissions,
\* active, of the new tenant) and answers 201 with an access and a refresh
\* token naming that user and tenant.
C19_RegisterCreatesTenantAndAdmin ==
  [][(/\ resp'.op = "register"
      /\ validRegister(resp'.email, resp'.password, resp'.tenantName)
      /\ ~\E u \in RegIds : /\ users[u].exists
                           /\ users[u].email = toLowerCase(resp'.email)
      /\ ~\E t \in RegIds : /\ tenants[t].exists
                           /\ tenants[t].slug = tenantSlugOf(Trim(resp'.tenantName)))
     => /\ resp'.status = 201
        /\ \E t \in RegIds, u \in RegIds :
             /\ ~tenants[t].exists
             /\ ~users[u].exists
             /\ tenants' = [tenants EXCEPT ![t] =
                              [NoTenant EXCEPT
                                 !.exists = TRUE,
                                 !.slug = tenantSlugOf(Trim(resp'.tenantName)),
                                 !.plan = "free",
                                 !.noteLimit = FreeNoteLimit,
                                 !.isActive = TRUE,
                                 !.currentUserCount = 1]]
             /\ users' = [users EXCEPT ![u] =
                            [NoUser EXCEPT
                               !.exists = TRUE,
                               !.email = toLowerCase(resp'.email),
                               !.password = resp'.password,
                               !.tenantId = t,
                               !.role = "admin",
                               !.permissions = PermissionNames,
                               !.isActive = TRUE]]
             /\ resp'.issued = IssuedTokens(u, t, "admin", now)]_vars

\* C20: a register call that passes validation with the (lowercased) e-mail
\* address of an existing user answers 409 USER_EXISTS; otherwise, with a
\* derived slug that an existing tenant has, it answers 409 TENANT_EXISTS;
\* in both cases no tenant and no user is created or modified.
C20_RegisterConflicts ==
  [][(/\ resp'.op = "register"
      /\ validRegister(resp'.email, resp'.password, resp'.tenantName))
     => LET userExists ==
              \E u \in RegIds : /\ users[u].exists
                                /\ users[u].email = toLowerCase(resp'.email)
            tenantExists ==
              \E t \in RegIds :
                /\ tenants[t].exists
                /\ tenants[t].slug = tenantSlugOf(Trim(resp'.tenantName))
        IN /\ userExists
              => /\ resp'.status = 409
                 /\ resp'.code = "USER_EXISTS"
                 /\ users' = users
                 /\ tenants' = tenants
           /\ (~userExists /\ tenantExists)
              => /\ resp'.status = 409
                 /\ resp'.code = "TENANT_EXISTS"
                 /\ users' = users
                 /\ tenants' = tenants]_vars

\* "acme  co!" was turned away with TENANT_EXISTS because a tenant registered
\* as "Acme Co" holds the slug acme-co
C20_Witness ==
  /\ resp.op = "register"
  /\ resp.status = 409
  /\ resp.code = "TENANT_EXISTS"
  /\ resp.tenantName = <<"a", "c", "m", "e", " ", " ", "c", "o", "!">>
  /\ \E t \in RegIds :
       /\ t # 0
       /\ tenants[t].exists
       /\ tenants[t].slug = <<"a", "c", "m", "e", "-", "c", "o">>
       /\ tenants[t].currentUserCount = 1

\* C21: refreshToken called with a verifying token of type refresh, for a
\* stored active user of an existing active tenant, answers 200 with exactly
\* one new access token carrying the user's stored tenant; when the user or
\* the tenant is missing or inactive it answers with a failure and no token.
C21_RefreshIssuesAccessToken ==
  (/\ resp.op = "refreshToken"
   /\ resp.token # NoToken
   /\ verifyToken(resp.token, now)
   /\ resp.token.tokenType = "refresh")
  => LET user == loadUserDb(resp.token.userId)
     IN IF user.found /\ user.isActive /\ user.hasTenant /\ user.tenantIsActive
        THEN /\ resp.status = 200
             /\ resp.issued =
                  {generateToken([userId |-> user.id, tenantId |-> user.tenantId,
                                            role |-> user.role], now)}
        ELSE /\ resp.status # 200
             /\ resp.issued = {}

C23_UpgradeOnlyOwnFreeTenantByAdmin ==
  [][resp'.op = "upgradeTenant"
       => LET user == users[resp'.userId]
              own == tenants[user.tenantId]
          IN IF user.role # "admin"
             THEN resp'.status = 403 /\ tenants' = tenants
             ELSE IF own.slug # resp'.slug
             THEN /\ resp'.status = 404
                  /\ resp'.code = "TENANT_NOT_FOUND"
                  /\ tenants' = tenants
             ELSE IF own.plan # "free"
             THEN /\ resp'.status = 400
                  /\ resp'.code = "ALREADY_PRO"
                  /\ tenants' = tenants
             ELSE /\ resp'.status = 200
                  /\ tenants' = [tenants EXCEPT ![user.tenantId] =
                                   [own EXCEPT !.plan = "pro",
                                               !.noteLimit = Unlimited,
                                               !.status = "active"]]]_vars

\* acme was upgraded by its admin while it had notes, and kept its count
C23_Witness ==
  /\ resp.op = "upgradeTenant"
  /\ resp.status = 200
  /\ resp.slug = "acme"
  /\ tenants["acme"].plan = "pro"
  /\ tenants["acme"].noteLimit = Unlimited
  /\ tenants["acme"].currentNoteCount = 2

\* C24: after every save of a tenant whose plan was changed, whatever
\* noteLimit the tenant had before: a free tenant has a noteLimit from 1 to
\* 10 and a pro tenant has noteLimit -1.
C24_LimitMatchesPlanAfterChange ==
  resp.op = "changePlan"
  => LET t == tenants[resp.tenantId]
     IN /\ t.plan = "free" => (1 <= t.noteLimit /\ t.noteLimit <= FreeNoteLimitMax)
        /\ t.plan = "pro" => t.noteLimit = Unlimited

\* C25: for every query or document q, one that already carries another
\* tenantId included, addTenantFilter(q) and addTenantData(q) return q with
\* tenantId set to the principal's tenantId and every other field unchanged,
\* and q itself is not changed; without a principal (or without its tenant)
\* the request is answered 401 TENANT_CONTEXT_REQUIRED and the next handler
\* does not run.
C25_TenantHelpers ==
  resp.op \in {"addTenantFilter", "addTenantData"}
  => IF resp.principal = NoPrincipal \/ resp.principal.tenantId = None
     THEN /\ resp.status = 401
          /\ resp.code = "TENANT_CONTEXT_REQUIRED"
          /\ ~resp.result
          /\ resp.out = <<>>
     ELSE /\ resp.result
          /\ DOMAIN resp.out = DOMAIN resp.arg \cup {"tenantId"}
          /\ resp.out["tenantId"] = resp.principal.tenantId
          /\ \A f \in DOMAIN resp.arg \ {"tenantId"} : resp.out[f] = resp.arg[f]
          /\ resp.argAfter = resp.arg

\* a query that named another tenant came back with the principal's tenant
C25_Witness ==
  /\ resp.op = "addTenantFilter"
  /\ resp.principal.tenantId = "acme"
  /\ "tenantId" \in DOMAIN resp.arg
  /\ resp.arg["tenantId"] = "globex"
  /\ resp.out["tenantId"] = "acme"
  /\ resp.argAfter["tenantId"] = "globex"

\* C26: for every active user and every permission p, the requirePermission
\* middleware and User.hasPermission allow p exactly when the role is admin
\* or the stored flag permissions[p] is true; an admin is allowed every p
\* even when the stored flag is false, and the two checks agree for every
\* principal the resolver attaches.
C26_PermissionChecksAgree ==
  /\ resp.op = "requirePermission"
       => LET user == users[resp.userId]
          IN /\ resp.result <=> (user.role = "admin" \/ resp.type \in user.permissions)
             /\ resp.result <=> hasPermission(user, resp.type)
             /\ resp.result <=> resp.status = 200
  /\ (resp.op = "hasPermission" /\ users[resp.userId].isActive)
       => LET user == users[resp.userId]
          IN resp.result <=> (user.role = "admin" \/ resp.type \in user.permissions)

\* an admin whose stored flag is false passed the middleware
C26_Witness ==
  /\ resp.op = "requirePermission"
  /\ resp.status = 200
  /\ users[resp.userId].role = "admin"
  /\ resp.type = "canDeleteNotes"
  /\ resp.type \notin users[resp.userId].permissions

\* the note of the request was visible to the tenant before the step
NoteInTenant(id, tenantId) ==
  /\ notes[id].exists
  /\ notes[id].tenantId = tenantId
  /\ ~notes[id].isDeleted

\* C27: a member's getNoteById, updateNote or deleteNote succeeds only for a
\* non-deleted note of the member's tenant whose userId is the member's;
\* otherwise it returns 404 NOTE_NOT_FOUND and changes nothing.  An admin's
\* request succeeds for every non-deleted note of the admin's own tenant.
C27_MemberOwnNotesOnly ==
  [][resp'.op \in {"getNoteById", "updateNote", "deleteNote"}
       => LET id == resp'.noteId
              isAdmin == users[resp'.userId].role = "admin"
              allowed == /\ NoteInTenant(id, resp'.tenantId)
                         /\ (isAdmin \/ notes[id].userId = resp'.userId)
          IN /\ allowed => resp'.status = 200
             /\ ~allowed => /\ resp'.status = 404
                            /\ resp'.code = "NOTE_NOT_FOUND"
                            /\ notes' = notes
                            /\ tenants' = tenants
                            /\ users' = users]_vars

\* a member asked to update a live note of the member's tenant that another
\* user owns, and was refused
C27_Witness ==
  /\ resp.op = "updateNote"
  /\ resp.status = 404
  /\ users[resp.userId].role = "member"
  /\ NoteInTenant(resp.noteId, resp.tenantId)
  /\ notes[resp.noteId].userId # resp.userId

\* C28: when the attempt-counter update fails during a login with a wrong
\* password, login still answers 401 INVALID_CREDENTIALS and not a service
\* error.
C28_UpdateFailureStill401 ==
  resp.op = "loginUpdateFails"
    => /\ resp.status = 401
       /\ resp.code = "INVALID_CREDENTIALS"

\* every login handler has sent its response
LoginsDone ==
  \A r \in LoginReqIds : reqs[r].pc = "done"

\* the stored user after login with password p1 and then login with password
\* p2, run one after the other from the store the requests started with
AfterLoginsInOrder(p1, p2) ==
  LET store == [SeedUsers EXCEPT ![LoginUser] = hist.start]
      email == hist.start.email
  IN loginDbIn(loginDbIn(store, email, p1).users, email, p2).users[LoginUser]

\* C29: for any interleaving of a login with the right and a login with the
\* wrong password for the same user, the final (loginAttempts, lockUntil) is
\* that of one of the two sequential orders, and the user is never left
\* locked with loginAttempts below 5.
C29_LoginUpdatesSerializable ==
  (/\ LoginsDone
   /\ \E r, q \in LoginReqIds : /\ reqs[r].password = hist.start.password
                                /\ reqs[q].password # hist.start.password)
    => LET final == users[LoginUser]
       IN /\ \E r, q \in LoginReqIds :
               /\ r # q
               /\ final.loginAttempts =
                    AfterLoginsInOrder(reqs[r].password, reqs[q].password).loginAttempts
               /\ final.lockUntil =
                    AfterLoginsInOrder(reqs[r].password, reqs[q].password).lockUntil
          /\ isLocked(final, now) => final.loginAttempts >= MaxLoginAttempts

\* C30: in every reachable state, also under concurrently interleaved login
\* requests for one user, 0 <= security.loginAttempts <= 5 for every user.
C30_LoginAttemptsWithinFive ==
  \A u \in UserIds :
    users[u].exists
      => /\ 0 <= users[u].loginAttempts
         /\ users[u].loginAttempts <= MaxLoginAttempts

-----------------------------------------------------------------------------
(* Further properties of login *)

\* the last step was a login for a stored user with a wrong password
WrongPasswordLogin ==
  /\ resp.op = "login"
  /\ resp.before.exists
  /\ resp.password # resp.before.password

\* C31 (as stated): no failed login lowers the attempt counter: the
\* loginAttempts stored after a wrong-password login is at least the
\* loginAttempts stored before it.
C31_FailureNeverLowersCounter ==
  WrongPasswordLogin
    => UserByEmail(resp.email).loginAttempts >= resp.before.loginAttempts

\* C31 (amended): a wrong-password login lowers the counter only when the
\* user's lock has run out (lockUntil earlier than now), and then the counter
\* restarts at 1 with the lock cleared; in every other case the counter after
\* the login is at least the counter before it.
C31_FailureLowersCounterOnlyAfterLock ==
  WrongPasswordLogin
    => \/ UserByEmail(resp.email).loginAttempts >= resp.before.loginAttempts
       \/ /\ resp.before.lockUntil # NoTime
          /\ resp.before.lockUntil < now
          /\ UserByEmail(resp.email).loginAttempts = 1
          /\ UserByEmail(resp.email).lockUntil = NoTime

\* a user with five recorded failures failed again after the lock ran out and
\* is left with one
C31_Witness ==
  /\ WrongPasswordLogin
  /\ resp.status = 401
  /\ resp.before.loginAttempts = MaxLoginAttempts
  /\ resp.before.lockUntil < now
  /\ UserByEmail(resp.email).loginAttempts = 1

-----------------------------------------------------------------------------
(* Properties of logout *)

\* the user and the tenant the resolver loads for the token are active and
\* the user is still in the token's tenant
UserAndTenantActive(tok) ==
  LET user == IF build = "db" THEN loadUserDb(tok.userId) ELSE loadUserMock(tok.userId)
  IN /\ user.found
     /\ user.isActive
     /\ user.hasTenant
     /\ user.tenantIsActive
     /\ user.tenantId = tok.tenantId

\* C32: logout changes no user, tenant or note and revokes nothing: an
\* access token that authenticate accepted before logout is accepted after
\* logout at every time before its expiry while the user and the tenant
\* remain active.
C32_LogoutRevokesNothing ==
  /\ [][resp'.op = "logout"
          => /\ users' = users
             /\ tenants' = tenants
             /\ notes' = notes
             /\ tokens' = tokens]_vars
  /\ []((/\ resp.op = "authenticate"
         /\ resp.token \in hist.loggedOut
         /\ now < resp.token.exp
         /\ UserAndTenantActive(resp.token))
        => /\ resp.code = "OK"
           /\ resp.principal.userId = resp.token.userId)

\* a token was presented after its logout, at a later hour, and accepted
C32_Witness ==
  /\ resp.op = "authenticate"
  /\ resp.token \in hist.loggedOut
  /\ resp.code = "OK"
  /\ now > 0

-----------------------------------------------------------------------------
(* Further properties of concurrent logins *)

\* C33: under any interleaving of concurrent wrong-password logins for one
\* user, in every state where all requests have completed and loginAttempts
\* is at least 5, lockUntil is set.
C33_FiveAttemptsImplyLock ==
  (/\ LoginsDone
   /\ \A r \in LoginReqIds : reqs[r].password # hist.start.password
   /\ users[LoginUser].loginAttempts >= MaxLoginAttempts)
    => users[LoginUser].lockUntil # NoTime

\* C34: a failed login of a user whose lockUntil is set and not later than
\* now (so the user is not locked) sets loginAttempts to 1 and clears
\* lockUntil, also at the instant now = lockUntil.
C34_RunOutLockRestartsCounter ==
  (/\ WrongPasswordLogin
   /\ resp.status = 401
   /\ resp.compared
   /\ resp.before.lockUntil # NoTime
   /\ resp.before.lockUntil <= now)
    => /\ UserByEmail(resp.email).loginAttempts = 1
       /\ UserByEmail(resp.email).lockUntil = NoTime

-----------------------------------------------------------------------------
(* Further properties of registration *)

\* C35: for any interleaving of concurrent register requests, no two users
\* in the store, in whatever tenants, share the same lowercased email.
C35_EmailsUnique ==
  \A u1, u2 \in RegIds :
    (/\ u1 # u2
     /\ users[u1].exists
     /\ users[u2].exists)
      => toLowerCase(users[u1].email) # toLowerCase(users[u2].email)

\* C36: for every register input that passes validation (tenantName of 2 to
\* 100 characters) the derived slug is a valid tenant slug (a-z, 0-9 and
\* hyphen, 2 to 50 characters) and register ends in success, USER_EXISTS or
\* TENANT_EXISTS only.
C36_DerivedSlugValid ==
  (/\ resp.op = "register"
   /\ validRegister(resp.email, resp.password, resp.tenantName))
    => /\ slugValid(tenantSlugOf(Trim(resp.tenantName)))
       /\ \/ resp.status = 201
          \/ resp.code \in {"USER_EXISTS", "TENANT_EXISTS"}

\* C40: a register call that does not answer 201 leaves the tenants and the
\* users of the store as they were before the call.
C40_FailedRegisterLeavesStore ==
  [][(resp'.op = "register" /\ resp'.status # 201)
       => /\ tenants' = tenants
          /\ users' = users]_vars

-----------------------------------------------------------------------------
(* Properties of optional authentication *)

\* C37: optionalAuth never rejects a request: without a token or with a
\* token that fails authentication it calls the next handler exactly once,
\* without a principal and without an error response; with a token that
\* authenticates it calls the next handler exactly once with the principal
\* attached.
C37_OptionalAuthNeverRejects ==
  resp.op = "optionalAuth"
    => LET r == IF build = "db" THEN authenticateDb(resp.token)
                ELSE authenticateMock(resp.token)
       IN /\ resp.counter = 1
          /\ resp.status = 0
          /\ resp.principal = r.principal

-----------------------------------------------------------------------------
(* Properties of the principal *)

\* C38: the principal's role, permissions, isAdmin and tenantSlug are those
\* stored for the token's user and that user's tenant at the time of the
\* request, not those the token carries: after the stored role or
\* permissions change, a token issued earlier yields the new ones.
C38_PrincipalFromStoreNotToken ==
  (resp.op = "authenticate" /\ resp.principal # NoPrincipal)
    => /\ resp.token.userId \in UserIds
       /\ LET user == users[resp.token.userId]
          IN /\ user.exists
             /\ resp.principal.role = user.role
             /\ resp.principal.permissions = user.permissions
             /\ resp.principal.isAdmin = (user.role = "admin")
             /\ resp.principal.tenantSlug = TenantOf(user).slug

-----------------------------------------------------------------------------
(* Further properties of the notes controller *)

\* C39: updateNote never changes a note's isDeleted or userId and never
\* changes a tenant's usage counters, whatever the request body holds; so an
\* update request preserves the equality of usage.currentNoteCount and the
\* number of non-deleted notes of every tenant.
C39_UpdateKeepsDeletionAndOwner ==
  [][resp'.op = "updateNote"
       => /\ \A n \in NoteIds :
               /\ notes'[n].isDeleted = notes[n].isDeleted
               /\ notes'[n].userId = notes[n].userId
          /\ tenants' = tenants
          /\ \A t \in TenantIds :
               tenants[t].currentNoteCount = Cardinality(LiveNotes(t))
                 => tenants'[t].currentNoteCount =
                      Cardinality({n \in NoteIds : /\ notes'[n].exists
                                                   /\ notes'[n].tenantId = t
                                                   /\ ~notes'[n].isDeleted})]_vars

====
